---- MODULE Spec2Model ----
(***************************************************************************)
(* A model of the generative layer of kookaburra: the bespoke priors       *)
(* (priors.py), the composable flux models (kookaburra/flux.py) and the    *)
(* Gaussian likelihood (likelihood.py).                                    *)
(*                                                                         *)
(* Numbers.  The Python code computes with IEEE floats.  Here a float is   *)
(* a record [tag, q, l]: tag "fin" with the exact rational q = <<n, d>>    *)
(* plus l times the symbol L = log(2*pi*sigma^2) (l is <<0, 1>> everywhere *)
(* outside the likelihood), or one of the tags "nan", "pinf", "ninf".      *)
(* "fmax" and "fmin" are the largest and the most negative finite floats,  *)
(* which only numpy.nan_to_num produces.  Rounding is not modelled.        *)
(***************************************************************************)
EXTENDS Integers, Sequences, FiniteSets, TLC

VARIABLES
    sas,        \* the SpikeAndSlab object, or NoObj before/without construction
    sasErr,     \* the exception SpikeAndSlab.__init__ raised, or "none"
    sasArgs,    \* the arguments of the SpikeAndSlab(...) call made, or NoObj
    sasCall,    \* the last rescale/prob call on sas: its input and what it gave
    heap,       \* the flux-model objects, in order of creation; a list of
                \* sub-models holds references, i.e. indices into heap
    fluxExpr,   \* history: for each object the + expression that built it
    fluxErr,    \* the exception the last + raised, or "none"
    fluxCall,   \* the last evaluation model(time, **kwargs) and what it gave
    lik,        \* the PulsarLikelihood object, or NoObj
    likCall,    \* the last log_likelihood() call: log_l and the value returned
    likNew,     \* history: the PulsarLikelihood(...) call made, the keyword
                \* arguments it was given and the exception it raised
    priors,     \* a prior mapping: the sequence of its [key, prior] items
    toaOrig,    \* history: the mapping as update_toa_prior received it
    toaCall,    \* the update_toa_prior call made and the exception it raised
    toaDraw,    \* the joint draw made from the mapping
    arrays,     \* the arrays and lists that exist, in order of creation; the
                \* caller and a TimeDomainData hold references into it
    tdd,        \* the TimeDomainData object, or NoObj
    dataErr,    \* the exception the last TimeDomainData call raised, or "none"
    dataIn,     \* history: the last call that made or changed the data
                \* object, with its inputs as they were when it was made
    dataRead,   \* the attributes last read off the data object, or NoRead
    pmodels,    \* the leaf flux models built with prior arguments, in order
    pcall,      \* the last get_priors or parameters call and what it gave
    pshared,    \* what parallel workers share: the flux models, the data
                \* arrays and the model of the likelihood
    pshared0,   \* history: pshared as it was when the workers started
    workers     \* per worker: its own parameter mapping, its position in
                \* log_likelihood and the values of its local names

sasVars == <<sas, sasErr, sasArgs, sasCall>>
fluxVars == <<heap, fluxExpr, fluxErr, fluxCall>>
likVars == <<lik, likCall, likNew>>
toaVars == <<priors, toaOrig, toaCall, toaDraw>>
dataVars == <<arrays, tdd, dataErr, dataIn, dataRead>>
priVars == <<pmodels, pcall>>
parVars == <<pshared, pshared0, workers>>
vars == <<sasVars, fluxVars, likVars, toaVars, dataVars, priVars, parVars>>

\* what the actions of one part leave alone: the other parts (the
\* likelihood works on the flux models, so its actions say themselves what
\* they do to heap)
SasOnly == UNCHANGED <<fluxVars, likVars, toaVars, dataVars, priVars, parVars>>
FluxOnly == UNCHANGED <<sasVars, likVars, toaVars, dataVars, priVars, parVars>>
LikOnly == UNCHANGED <<sasVars, fluxExpr, fluxErr, fluxCall, toaVars, dataVars, priVars, parVars>>
ToaOnly == UNCHANGED <<sasVars, fluxVars, likVars, dataVars, priVars, parVars>>
DataOnly == UNCHANGED <<sasVars, fluxVars, likVars, toaVars, priVars, parVars>>
PriOnly == UNCHANGED <<sasVars, fluxVars, likVars, toaVars, dataVars, parVars>>
ParOnly == UNCHANGED <<sasVars, fluxVars, likVars, toaVars, dataVars, priVars>>

----------------------------------------------------------------------------
(* Bounds of the model. *)
MaxBound == 2      \* slab bounds are drawn from 0 .. MaxBound
MixDen == 3        \* mix and unit values are drawn from the grid k / MixDen
MaxArr == 2        \* array inputs have at most MaxArr elements
MaxJoins == 2      \* at most MaxJoins uses of + in one behaviour
NPoly == 2         \* n_polynomials of the PolynomialFlux of the model pool
NShapelets == 2    \* n_shapelets of the ShapeletFlux of the model pool
MaxT == 2          \* time arrays have 1 or MaxT samples
MaxFlux == 2       \* flux samples are drawn from -1, 1, .., 2 * MaxFlux - 1
MaxSigma == 2      \* finite sigma values are drawn from 0 .. MaxSigma
MaxToa == 3        \* at most MaxToa pulse components declare an arrival time
MaxToaEnd == 2     \* an arrival-time prior ends at 1 .. MaxToaEnd
FracDen == 1       \* a draw takes its quantiles from the grid k / FracDen
MaxDataLen == 3    \* time and flux inputs have at most MaxDataLen elements
MaxDataVal == 2    \* time values are drawn from 0 .. MaxDataVal
WidthDen == 4      \* toa_prior_width is drawn from the grid k / WidthDen

----------------------------------------------------------------------------
(* Exact rationals <<n, d>>, d > 0, in lowest terms. *)
Abs(x) == IF x < 0 THEN -x ELSE x

RECURSIVE Gcd(_, _)
Gcd(a, b) == IF b = 0 THEN a ELSE Gcd(b, a % b)

Rat(n, d) ==
    LET s == IF d < 0 THEN -1 ELSE 1
        g == Gcd(Abs(n), Abs(d))
    IN  <<(s * n) \div g, (s * d) \div g>>

RZero == <<0, 1>>
ROne == <<1, 1>>
RInt(k) == <<k, 1>>
\* sums and products are reduced before they are multiplied out
RAdd(a, b) ==
    IF a[2] = 1 /\ b[2] = 1 THEN <<a[1] + b[1], 1>>
    ELSE LET g == Gcd(a[2], b[2])
         IN  Rat(a[1] * (b[2] \div g) + b[1] * (a[2] \div g), (a[2] \div g) * b[2])
RSub(a, b) == RAdd(a, <<-b[1], b[2]>>)
RMul(a, b) ==
    IF a[2] = 1 /\ b[2] = 1 THEN <<a[1] * b[1], 1>>
    ELSE LET g1 == Gcd(Abs(a[1]), b[2])
             g2 == Gcd(Abs(b[1]), a[2])
         IN  Rat((a[1] \div g1) * (b[1] \div g2), (a[2] \div g2) * (b[2] \div g1))
RDiv(a, b) == Rat(a[1] * b[2], a[2] * b[1])          \* b # RZero
RLt(a, b) == a[1] * b[2] < b[1] * a[2]
RLe(a, b) == a[1] * b[2] <= b[1] * a[2]
RSign(a) == IF a[1] > 0 THEN 1 ELSE IF a[1] < 0 THEN -1 ELSE 0

----------------------------------------------------------------------------
(* Floats: IEEE arithmetic on the exact values, as numpy computes it       *)
(* (division by zero gives an infinity or NaN, never an exception).        *)
Fin(q) == [tag |-> "fin", q |-> q, l |-> RZero]
FinL(q, l) == [tag |-> "fin", q |-> q, l |-> l]
FInt(k) == Fin(RInt(k))
NaN == [tag |-> "nan", q |-> RZero, l |-> RZero]
PInf == [tag |-> "pinf", q |-> RZero, l |-> RZero]
NInf == [tag |-> "ninf", q |-> RZero, l |-> RZero]
FMax == [tag |-> "fmax", q |-> RZero, l |-> RZero]
FMin == [tag |-> "fmin", q |-> RZero, l |-> RZero]

IsFin(x) == x.tag = "fin"
IsNaN(x) == x.tag = "nan"
IsInf(x) == x.tag \in {"pinf", "ninf"}
\* the sign of a float that is not NaN and carries no log term
FSign(x) == IF x.tag = "pinf" THEN 1 ELSE IF x.tag = "ninf" THEN -1 ELSE RSign(x.q)
InfOfSign(s) == IF s > 0 THEN PInf ELSE NInf

FNeg(x) ==
    CASE x.tag = "pinf" -> NInf
      [] x.tag = "ninf" -> PInf
      [] x.tag = "nan" -> NaN
      [] OTHER -> FinL(RSub(RZero, x.q), RSub(RZero, x.l))

FAdd(x, y) ==
    CASE IsNaN(x) \/ IsNaN(y) -> NaN
      [] IsInf(x) /\ IsInf(y) -> IF x.tag = y.tag THEN x ELSE NaN
      [] IsInf(x) -> x
      [] IsInf(y) -> y
      [] OTHER -> FinL(RAdd(x.q, y.q), RAdd(x.l, y.l))

FSub(x, y) == FAdd(x, FNeg(y))

\* products are only taken of floats without a log term, or by a plain rational
FMul(x, y) ==
    CASE IsNaN(x) \/ IsNaN(y) -> NaN
      [] IsInf(x) \/ IsInf(y) ->
            IF FSign(x) = 0 \/ FSign(y) = 0 THEN NaN
            ELSE InfOfSign(FSign(x) * FSign(y))
      [] OTHER -> FinL(RMul(x.q, y.q), RAdd(RMul(x.l, y.q), RMul(x.q, y.l)))

FDiv(x, y) ==
    CASE IsNaN(x) \/ IsNaN(y) -> NaN
      [] IsInf(x) /\ IsInf(y) -> NaN
      [] IsInf(x) -> InfOfSign(FSign(x) * (IF FSign(y) < 0 THEN -1 ELSE 1))
      [] IsInf(y) -> Fin(RZero)
      [] y.q = RZero -> IF FSign(x) = 0 THEN NaN ELSE InfOfSign(FSign(x))
      [] OTHER -> FinL(RDiv(x.q, y.q), RDiv(x.l, y.q))

\* comparisons: every comparison with NaN is false
FLt(x, y) ==
    CASE IsNaN(x) \/ IsNaN(y) -> FALSE
      [] x.tag = "ninf" -> y.tag # "ninf"
      [] y.tag = "pinf" -> x.tag # "pinf"
      [] x.tag = "pinf" \/ y.tag = "ninf" -> FALSE
      [] OTHER -> RLt(x.q, y.q)

FLe(x, y) ==
    CASE IsNaN(x) \/ IsNaN(y) -> FALSE
      [] x.tag = "ninf" \/ y.tag = "pinf" -> TRUE
      [] x.tag = "pinf" \/ y.tag = "ninf" -> FALSE
      [] OTHER -> RLe(x.q, y.q)

FEq(x, y) == ~IsNaN(x) /\ ~IsNaN(y) /\ x = y

\* all sequences over S of length 0 .. n
SeqsUpTo(S, n) == UNION {[1..k -> S] : k \in 0..n}

----------------------------------------------------------------------------
(* bilby.core.prior.Uniform, the slab, and the other things a caller may   *)
(* pass as slab.                                                           *)
NoObj == [cls |-> "NoObj"]
NoneVal == [cls |-> "None"]
Uniform(a, b) == [cls |-> "Uniform", minimum |-> a, maximum |-> b]
LogUniform(a, b) == [cls |-> "LogUniform", minimum |-> a, maximum |-> b]

\* Uniform.prob: ((val >= minimum) & (val <= maximum)) / (maximum - minimum)
UniformProb(slab, val) ==
    FDiv(IF FLe(slab.minimum, val) /\ FLe(val, slab.maximum) THEN FInt(1) ELSE FInt(0),
         FSub(slab.maximum, slab.minimum))

\* the inputs of the SpikeAndSlab actions
Grid == {Rat(k, MixDen) : k \in 0..MixDen}
Mixes == {Fin(r) : r \in Grid}
UnitInputs == {Fin(Rat(k, MixDen)) : k \in (-1)..(MixDen + 1)}
SlabBounds == {<<FInt(a), FInt(b)>> : a \in 0..MaxBound, b \in 0..MaxBound}
Slabs ==
    {Uniform(p[1], p[2]) : p \in {r \in SlabBounds : FLt(r[1], r[2])}}
    \cup {NoneVal, LogUniform(FInt(1), FInt(2))}

----------------------------------------------------------------------------
(* priors.py: SpikeAndSlab *)

\* a slab the constructor wrongly lets through: anything but None
IsInstanceUniform_NotNone(slab) == slab.cls # "None"

\* isinstance(slab, Uniform)
IsInstanceUniform(slab) == slab.cls = "Uniform"

\* SpikeAndSlab.__init__: [exc, obj], obj = NoObj when the constructor raised
SpikeAndSlabInit(slab, mix) ==
    IF ~IsInstanceUniform(slab)
    THEN [exc |-> "NotImplementedError", obj |-> NoObj]
    ELSE [exc |-> "none",
          obj |-> [cls |-> "SpikeAndSlab",
                   minimum |-> slab.minimum,
                   maximum |-> slab.maximum,
                   mix |-> mix,
                   spike |-> slab.minimum,
                   slab |-> slab]]

\* Prior.test_valid_for_rescaling: any value outside [0, 1] is a ValueError
ValidForRescaling(vals) ==
    \A i \in 1..Len(vals) : ~FLt(vals[i], FInt(0)) /\ ~FLt(FInt(1), vals[i])

\* p = (val - self.mix) / (1 - self.mix), numpy division
RescaleP(self, val) == FDiv(FSub(val, self.mix), FSub(FInt(1), self.mix))

\* the slab line with the lower bound not subtracted
SlabValue_NoOffset(self, p) == FAdd(self.minimum, FMul(p, self.maximum))

\* self.minimum + p * (self.maximum - self.minimum)
SlabValue(self, p) ==
    FAdd(self.minimum, FMul(p, FSub(self.maximum, self.minimum)))

\* the scalar branch of rescale (a Python float or int): Python's own
\* division raises ZeroDivisionError where numpy's gives an infinity or NaN
RescaleScalar(self, val) ==
    IF ~ValidForRescaling(<<val>>)
    THEN [exc |-> "ValueError", out |-> <<>>]
    ELSE IF FSub(FInt(1), self.mix) = FInt(0)
    THEN [exc |-> "ZeroDivisionError", out |-> <<>>]
    ELSE LET p == RescaleP(self, val)
         IN  [exc |-> "none",
              out |-> <<IF FLt(p, FInt(0)) THEN self.minimum ELSE SlabValue(self, p)>>]

\* the array branch without its last line, icdf[p < 0] = self.minimum
RescaleElement_NoSpike(self, u) == SlabValue(self, RescaleP(self, u))

\* one element of the array branch: the slab value, then overwritten by the
\* minimum where p < 0
RescaleElement(self, u) ==
    LET p == RescaleP(self, u)
        icdf == SlabValue(self, p)
    IN  IF FLt(p, FInt(0)) THEN self.minimum ELSE icdf

\* the array branch of rescale (a numpy array)
RescaleArray(self, val) ==
    IF ~ValidForRescaling(val)
    THEN [exc |-> "ValueError", out |-> <<>>]
    ELSE [exc |-> "none",
          out |-> [i \in 1..Len(val) |-> RescaleElement(self, val[i])]]

\* the density with the spike test left out
ProbElement_NoSpike(self, x) ==
    FMul(FSub(FInt(1), self.mix), UniformProb(self.slab, x))

\* one value of prob; the scalar branch tests val == self.spike first, the
\* array branch overwrites probs[val == self.spike], with the same result
ProbElement(self, x) ==
    IF FEq(x, self.spike)
    THEN self.mix
    ELSE FMul(FSub(FInt(1), self.mix), UniformProb(self.slab, x))

ProbScalar(self, val) == <<ProbElement(self, val)>>

ProbArray(self, val) ==
    LET probs == [i \in 1..Len(val) |->
                    FMul(UniformProb(self.slab, val[i]), FSub(FInt(1), self.mix))]
    IN  [i \in 1..Len(val) |->
            IF FEq(val[i], self.spike) THEN self.mix ELSE probs[i]]

NoCall ==
    [op |-> "none", arr |-> FALSE, arg |-> <<>>, exc |-> "none", out |-> <<>>,
     chained |-> FALSE]

ProbInputs == {FInt(k) : k \in (-1)..(MaxBound + 1)}

SasIdle == sas = NoObj /\ sasErr = "none" /\ sasArgs = NoObj /\ sasCall = NoCall

SasInit == SasIdle

\* SpikeAndSlab(slab=..., mix=...)
SasConstruct ==
    /\ sasArgs = NoObj
    /\ \E slab \in Slabs, mix \in Mixes :
          LET r == SpikeAndSlabInit(slab, mix)
          IN  /\ sasArgs' = [cls |-> "args", slab |-> slab, mix |-> mix]
              /\ sas' = r.obj
              /\ sasErr' = r.exc
    /\ UNCHANGED sasCall /\ SasOnly

\* Calls leave the object as it is, so one call (and the density of what it
\* returned) is followed per behaviour.

\* sas.rescale(u) with a Python scalar
SasRescaleScalar ==
    /\ sas # NoObj /\ sasCall = NoCall
    /\ \E u \in UnitInputs :
          LET r == RescaleScalar(sas, u)
          IN  sasCall' = [op |-> "rescale", arr |-> FALSE, arg |-> <<u>>,
                          exc |-> r.exc, out |-> r.out, chained |-> FALSE]
    /\ UNCHANGED <<sas, sasErr, sasArgs>> /\ SasOnly

\* sas.rescale(us) with a numpy array
SasRescaleArray ==
    /\ sas # NoObj /\ sasCall = NoCall
    /\ \E us \in SeqsUpTo(UnitInputs, MaxArr) :
          LET r == RescaleArray(sas, us)
          IN  sasCall' = [op |-> "rescale", arr |-> TRUE, arg |-> us,
                          exc |-> r.exc, out |-> r.out, chained |-> FALSE]
    /\ UNCHANGED <<sas, sasErr, sasArgs>> /\ SasOnly

\* sas.prob(x) with a Python scalar
SasProbScalar ==
    /\ sas # NoObj /\ sasCall = NoCall
    /\ \E x \in ProbInputs :
          sasCall' = [op |-> "prob", arr |-> FALSE, arg |-> <<x>>,
                      exc |-> "none", out |-> ProbScalar(sas, x), chained |-> FALSE]
    /\ UNCHANGED <<sas, sasErr, sasArgs>> /\ SasOnly

\* sas.prob(sas.rescale(u)): the density of the value rescale has just
\* emitted from its spike branch (p < 0)
SasProbOfRescaled ==
    /\ sas # NoObj
    /\ sasCall.op = "rescale" /\ sasCall.exc = "none" /\ Len(sasCall.out) = 1
    /\ FLt(RescaleP(sas, sasCall.arg[1]), FInt(0))
    /\ sasCall' = [op |-> "prob", arr |-> sasCall.arr, arg |-> sasCall.out,
                   exc |-> "none",
                   out |-> IF sasCall.arr THEN ProbArray(sas, sasCall.out)
                           ELSE ProbScalar(sas, sasCall.out[1]),
                   chained |-> TRUE]
    /\ UNCHANGED <<sas, sasErr, sasArgs>> /\ SasOnly

\* sas.prob(xs) with a numpy array
SasProbArray ==
    /\ sas # NoObj /\ sasCall = NoCall
    /\ \E xs \in SeqsUpTo(ProbInputs, MaxArr) :
          sasCall' = [op |-> "prob", arr |-> TRUE, arg |-> xs,
                      exc |-> "none", out |-> ProbArray(sas, xs), chained |-> FALSE]
    /\ UNCHANGED <<sas, sasErr, sasArgs>> /\ SasOnly

SasNext ==
    \/ SasConstruct
    \/ SasRescaleScalar
    \/ SasRescaleArray
    \/ SasProbScalar
    \/ SasProbArray
    \/ SasProbOfRescaled


----------------------------------------------------------------------------
(* Strings are sequences of characters, so that f-strings, slices and      *)
(* substring tests are computed.  A dict with None values (a model's       *)
(* parameters) is the sequence of its keys in insertion order.             *)
Digits == <<"0", "1", "2", "3", "4", "5", "6", "7", "8", "9">>

RECURSIVE NatToStr(_)
NatToStr(n) ==
    IF n < 10 THEN <<Digits[n + 1]>> ELSE NatToStr(n \div 10) \o <<Digits[(n % 10) + 1]>>

\* str(n) of an int
IntToStr(n) == IF n < 0 THEN <<"-">> \o NatToStr(-n) ELSE NatToStr(n)

PyNone == <<"N", "o", "n", "e", "!">>      \* stands for the value None of a name
S_C == <<"C">>
S_B == <<"B">>
S_toa == <<"t", "o", "a">>
S_beta == <<"b", "e", "t", "a">>
S_us == <<"_">>
S_PolynomialFlux == <<"P">>                \* the default name, shortened

SeqRange(sq) == {sq[i] : i \in 1..Len(sq)}

\* d[key] = None on a dict kept as its key sequence
DictSetNone(d, key) == IF key \in SeqRange(d) THEN d ELSE Append(d, key)

RECURSIVE DictSetAllNone(_, _)
DictSetAllNone(d, keys) ==
    IF keys = <<>> THEN d ELSE DictSetAllNone(DictSetNone(d, Head(keys)), Tail(keys))

----------------------------------------------------------------------------
(* kookaburra/flux.py: the leaf models *)

\* BaseFlux()
BaseFluxInit == [cls |-> "BaseFlux", pulse |-> FALSE, parameters |-> <<>>]

\* the arrival time declared before the width
ShapeletFluxInit_ToaFirst(n_shapelets, name) ==
    LET basename == S_C
        toa_key == IF name # PyNone THEN S_toa \o S_us \o name ELSE S_toa
        beta_key == IF name # PyNone THEN S_beta \o S_us \o name ELSE S_beta
        coef_keys == [i \in 1..n_shapelets |->
                        IF name # PyNone
                        THEN basename \o IntToStr(i - 1) \o S_us \o name
                        ELSE basename \o IntToStr(i - 1)]
    IN  [cls |-> "ShapeletFlux", pulse |-> TRUE,
         n_shapelets |-> n_shapelets, name |-> name, basename |-> basename,
         toa_key |-> toa_key, beta_key |-> beta_key, coef_keys |-> coef_keys,
         parameters |-> DictSetAllNone(<<toa_key, beta_key>>, coef_keys)]

\* ShapeletFlux(n_shapelets, name=name), the other arguments at their defaults
ShapeletFluxInit(n_shapelets, name) ==
    LET basename == S_C
        toa_key == IF name # PyNone THEN S_toa \o S_us \o name ELSE S_toa
        beta_key == IF name # PyNone THEN S_beta \o S_us \o name ELSE S_beta
        coef_keys == [i \in 1..n_shapelets |->
                        IF name # PyNone
                        THEN basename \o IntToStr(i - 1) \o S_us \o name
                        ELSE basename \o IntToStr(i - 1)]
    IN  [cls |-> "ShapeletFlux", pulse |-> TRUE,
         n_shapelets |-> n_shapelets, name |-> name, basename |-> basename,
         toa_key |-> toa_key, beta_key |-> beta_key, coef_keys |-> coef_keys,
         parameters |-> DictSetAllNone(<<beta_key, toa_key>>, coef_keys)]

\* PolynomialFlux(n_polynomials)
PolynomialFluxInit(n_polynomials) ==
    LET basename == S_B
        poly_keys == [i \in 1..n_polynomials |-> basename \o IntToStr(i - 1)]
    IN  [cls |-> "PolynomialFlux", pulse |-> FALSE,
         n_polynomials |-> n_polynomials, name |-> S_PolynomialFlux,
         basename |-> basename, poly_keys |-> poly_keys,
         parameters |-> DictSetAllNone(<<>>, poly_keys)]

\* isinstance(m, BaseFlux): BaseFlux and its subclasses
IsBaseFlux(m) == m.cls \in {"BaseFlux", "ShapeletFlux", "PolynomialFlux"}
IsJoint(m) == m.cls = "JointFluxModel"

\* BaseFlux.__call__: np.zeros_like(time)
BaseFluxCall(self, time, kw) ==
    [exc |-> "none", out |-> [i \in 1..Len(time) |-> FInt(0)]]

\* np.exp(-(x ** 2)), to three decimals; x is integral or not finite for
\* every input drawn here
ExpNegSq(x) ==
    CASE IsNaN(x) -> NaN
      [] IsInf(x) -> FInt(0)
      [] x.q = RZero -> FInt(1)
      [] Abs(x.q[1]) = 1 /\ x.q[2] = 1 -> Fin(Rat(368, 1000))
      [] Abs(x.q[1]) = 2 /\ x.q[2] = 1 -> Fin(Rat(18, 1000))
      [] OTHER -> FInt(0)

\* the loop of numpy's hermval (Clenshaw) for three or more coefficients
RECURSIVE HermLoop(_, _, _, _, _, _)
HermLoop(c, x2, i, nd, c0, c1) ==
    IF i > Len(c) THEN <<c0, c1>>
    ELSE HermLoop(c, x2, i + 1, nd - 1,
                  FSub(c[Len(c) - i + 1], FMul(c1, FInt(2 * (nd - 2)))),
                  FAdd(c0, FMul(c1, x2)))

\* np.polynomial.hermite.Hermite(coefs)(x) at one x, coefs not empty
Hermval(x, c) ==
    LET x2 == FMul(x, FInt(2))
        cc == IF Len(c) = 1 THEN <<c[1], FInt(0)>>
              ELSE IF Len(c) = 2 THEN <<c[1], c[2]>>
              ELSE HermLoop(c, x2, 3, Len(c), c[Len(c) - 1], c[Len(c)])
    IN  FAdd(cc[1], FMul(cc[2], x2))

\* ShapeletFlux.__call__; Hermite([]) raises ValueError
ShapeletFluxCall(self, time, kw) ==
    LET coefs == [i \in 1..Len(self.coef_keys) |-> kw[self.coef_keys[i]]]
        x(i) == FDiv(FSub(time[i], kw[self.toa_key]), kw[self.beta_key])
    IN  IF coefs = <<>>
        THEN [exc |-> "ValueError", out |-> <<>>]
        ELSE [exc |-> "none",
              out |-> [i \in 1..Len(time) |->
                         FMul(ExpNegSq(x(i)), Hermval(x(i), coefs))]]

\* np.poly1d drops the leading zero coefficients (highest degree first)
RECURSIVE TrimLeadingZeros(_)
TrimLeadingZeros(p) ==
    IF p = <<>> THEN <<FInt(0)>>
    ELSE IF Head(p) = FInt(0) THEN TrimLeadingZeros(Tail(p)) ELSE p

\* np.polyval: Horner, highest degree first
RECURSIVE Polyval(_, _, _)
Polyval(p, x, y) ==
    IF p = <<>> THEN y ELSE Polyval(Tail(p), x, FAdd(FMul(y, x), Head(p)))

Reverse(sq) == [i \in 1..Len(sq) |-> sq[Len(sq) - i + 1]]

\* PolynomialFlux.__call__; time[0] of an empty array raises IndexError
PolynomialFluxCall(self, time, kw) ==
    IF time = <<>>
    THEN [exc |-> "IndexError", out |-> <<>>]
    ELSE LET coeffs == [i \in 1..Len(self.poly_keys) |-> kw[self.poly_keys[i]]]
             midtime == FMul(Fin(Rat(1, 2)), FAdd(time[1], time[Len(time)]))
             p == TrimLeadingZeros(Reverse(coeffs))
         IN  [exc |-> "none",
              out |-> [i \in 1..Len(time) |->
                         Polyval(p, FSub(time[i], midtime), FInt(0))]]

\* model(time, **kwargs) of a leaf model
LeafCall(self, time, kw) ==
    CASE self.cls = "ShapeletFlux" -> ShapeletFluxCall(self, time, kw)
      [] self.cls = "PolynomialFlux" -> PolynomialFluxCall(self, time, kw)
      [] OTHER -> BaseFluxCall(self, time, kw)

----------------------------------------------------------------------------
(* kookaburra/flux.py: JointFluxModel *)

\* an operand that is kept whole, a composite inside the composite
JointAbsorb_Nested(h, id) == <<id>>

\* what JointFluxModel.__init__ adds to self.models for one operand: the
\* operand's own list if it is a JointFluxModel, the operand if it is a
\* BaseFlux
JointAbsorb(h, id) == IF IsJoint(h[id]) THEN h[id].models ELSE <<id>>

\* JointFluxModel(flux_model_A, flux_model_B) on references into h
JointFluxModelInit(h, a, b) ==
    [cls |-> "JointFluxModel", models |-> JointAbsorb(h, a) \o JointAbsorb(h, b)]

\* the new object taking over the list of a composite left operand, so
\* that += extends the operand's list too
JointFluxModelNew_SharedList(h, a, b) ==
    IF IsJoint(h[a])
    THEN Append([h EXCEPT ![a].models = JointFluxModelInit(h, a, b).models],
                JointFluxModelInit(h, a, b))
    ELSE Append(h, JointFluxModelInit(h, a, b))

\* the objects after JointFluxModel(a, b): self.models = [] is a list of
\* the new object, and += / append write to it alone
JointFluxModelNew(h, a, b) == Append(h, JointFluxModelInit(h, a, b))

\* the sum with the last child left out
SumChildren_DropLast(fluxes, n) ==
    [i \in 1..n |->
        LET RECURSIVE Acc(_)
            Acc(k) == IF k = 0 THEN FInt(0) ELSE FAdd(Acc(k - 1), fluxes[k][i])
        IN  Acc(Len(fluxes) - 1)]

\* np.sum(fluxes, axis=0) for arrays of n samples
SumChildren(fluxes, n) ==
    [i \in 1..n |->
        LET RECURSIVE Acc(_)
            Acc(k) == IF k = 0 THEN FInt(0) ELSE FAdd(Acc(k - 1), fluxes[k][i])
        IN  Acc(Len(fluxes))]

\* JointFluxModel.__call__: the first exception of a child propagates
JointCall(h, self, time, kw) ==
    LET calls == [k \in 1..Len(self.models) |-> LeafCall(h[self.models[k]], time, kw)]
        bad == {k \in 1..Len(calls) : calls[k].exc # "none"}
    IN  IF bad # {}
        THEN [exc |-> calls[CHOOSE k \in bad : \A j \in bad : k <= j].exc, out |-> <<>>]
        ELSE [exc |-> "none",
              out |-> SumChildren([k \in 1..Len(calls) |-> calls[k].out], Len(time))]

\* model(time, **kwargs) of any model object
ModelCall(h, id, time, kw) ==
    IF IsJoint(h[id]) THEN JointCall(h, h[id], time, kw) ELSE LeafCall(h[id], time, kw)

\* every child taken, whatever its pulse flag
PulseChildren_All(h, self) == self.models

\* the children with model.pulse true, in order
PulseChildren(h, self) ==
    SelectSeq(self.models, LAMBDA id : h[id].pulse)

\* JointFluxModel.get_pulse_only: np.sum(fluxes, axis=0) of the pulse
\* children's fluxes; of the empty list it is the scalar 0.0
JointGetPulseOnly(h, self, time, kw) ==
    LET calls == [k \in 1..Len(PulseChildren(h, self)) |->
                     LeafCall(h[PulseChildren(h, self)[k]], time, kw)]
        bad == {k \in 1..Len(calls) : calls[k].exc # "none"}
    IN  IF bad # {}
        THEN [exc |-> calls[CHOOSE k \in bad : \A j \in bad : k <= j].exc, out |-> <<>>]
        ELSE IF calls = <<>> THEN [exc |-> "none", out |-> FInt(0)]
        ELSE [exc |-> "none",
              out |-> SumChildren([k \in 1..Len(calls) |-> calls[k].out], Len(time))]

----------------------------------------------------------------------------
(* The flux-model behaviours: a pool of three leaf models is combined with *)
(* + and the newest model is evaluated.                                    *)
LeafPool == <<BaseFluxInit, PolynomialFluxInit(NPoly), ShapeletFluxInit(NShapelets, PyNone)>>

\* time arrays: one sample, or MaxT samples two apart, ending at 2
TimeArrays == {[i \in 1..n |-> FInt(2 * (i - n) + 2)] : n \in {1, MaxT}}

\* keyword arguments: beta, toa and the first coefficient are drawn, the
\* i-th coefficient of a model is the first plus i - 1
BetaVals == {1, 2}
ToaVals == {0}
CoefVals == {1, 2}
KeyIndex(keys, key) == CHOOSE i \in 1..Len(keys) : keys[i] = key
AllKeys(h) == UNION {SeqRange(h[i].parameters) : i \in {j \in 1..Len(h) : ~IsJoint(h[j])}}
KwValue(h, key, beta, toa, c) ==
    LET m == h[CHOOSE i \in 1..Len(h) : ~IsJoint(h[i]) /\ key \in SeqRange(h[i].parameters)]
    IN  IF m.cls = "ShapeletFlux" /\ key = m.beta_key THEN FInt(beta)
        ELSE IF m.cls = "ShapeletFlux" /\ key = m.toa_key THEN FInt(toa)
        ELSE IF m.cls = "ShapeletFlux" THEN FInt(c + KeyIndex(m.coef_keys, key) - 1)
        ELSE FInt(c + KeyIndex(m.poly_keys, key) - 1)
Kwargs(h) ==
    {[key \in AllKeys(h) |-> KwValue(h, key, beta, toa, c)] :
        beta \in BetaVals, toa \in ToaVals, c \in CoefVals}

NoFluxCall ==
    [op |-> "none", id |-> 0, time |-> <<>>, kw |-> <<>>, exc |-> "none", out |-> <<>>]
LeafExpr(i) == <<"leaf", i>>
NumJoins == Cardinality({i \in 1..Len(heap) : IsJoint(heap[i])})

FluxIdle == heap = <<>> /\ fluxExpr = <<>> /\ fluxErr = "none" /\ fluxCall = NoFluxCall

FluxInit ==
    /\ heap = LeafPool
    /\ fluxExpr = [i \in 1..Len(LeafPool) |-> LeafExpr(i)]
    /\ fluxErr = "none"
    /\ fluxCall = NoFluxCall

\* c = a + b: BaseFlux.__add__ and JointFluxModel.__add__ both return
\* JointFluxModel(self, flux_model)
FluxAdd ==
    /\ fluxErr = "none" /\ fluxCall = NoFluxCall
    /\ NumJoins < MaxJoins
    /\ \E a, b \in 1..Len(heap) :
          /\ heap' = JointFluxModelNew(heap, a, b)
          /\ fluxExpr' = Append(fluxExpr, <<"add", fluxExpr[a], fluxExpr[b]>>)
    /\ UNCHANGED <<fluxErr, fluxCall>> /\ FluxOnly

\* a + x where x is no flux model: JointFluxModel.__init__ raises ValueError
FluxAddOther ==
    /\ fluxErr = "none" /\ fluxCall = NoFluxCall
    /\ \E a \in 1..Len(heap) : fluxErr' = "ValueError"
    /\ UNCHANGED <<heap, fluxExpr, fluxCall>> /\ FluxOnly

\* the newest model is evaluated: model(time, **kwargs)
FluxEvaluate ==
    /\ fluxErr = "none" /\ fluxCall = NoFluxCall
    /\ \E time \in TimeArrays, kw \in Kwargs(heap) :
          LET r == ModelCall(heap, Len(heap), time, kw)
          IN  fluxCall' = [op |-> "call", id |-> Len(heap), time |-> time, kw |-> kw,
                           exc |-> r.exc, out |-> r.out]
    /\ UNCHANGED <<heap, fluxExpr, fluxErr>> /\ FluxOnly

\* the newest model, a composite, is asked for its pulses:
\* model.get_pulse_only(time, **kwargs)
FluxGetPulseOnly ==
    /\ fluxErr = "none" /\ fluxCall = NoFluxCall
    /\ IsJoint(heap[Len(heap)])
    /\ \E time \in TimeArrays, kw \in Kwargs(heap) :
          \E r \in {JointGetPulseOnly(heap, heap[Len(heap)], time, kw)} :
              fluxCall' = [op |-> "get_pulse_only", id |-> Len(heap), time |-> time,
                           kw |-> kw, exc |-> r.exc, out |-> r.out]
    /\ UNCHANGED <<heap, fluxExpr, fluxErr>> /\ FluxOnly

FluxNext == FluxAdd \/ FluxAddOther \/ FluxEvaluate \/ FluxGetPulseOnly


----------------------------------------------------------------------------
(* likelihood.py: PulsarLikelihood *)
S_sigma == <<"s", "i", "g", "m", "a">>
PNone == [tag |-> "None", q |-> RZero, l |-> RZero]     \* the value None

\* JointFluxModel.parameters: a new dict, updated with each child's dict
RECURSIVE JointParameters(_, _, _)
JointParameters(h, models, p) ==
    IF models = <<>> THEN p
    ELSE JointParameters(h, Tail(models), DictSetAllNone(p, h[Head(models)].parameters))

\* model.parameters: the attribute of a leaf, the property of a composite
ModelParameters(h, id) ==
    IF IsJoint(h[id]) THEN JointParameters(h, h[id].models, <<>>) ELSE h[id].parameters

\* PulsarLikelihood.__init__: self.parameters = model.parameters is the leaf's
\* own dict, so self.parameters["sigma"] = None writes into the leaf model;
\* Likelihood.__init__ then gives the likelihood a dict of its own
LikInitHeap(h, id) ==
    IF IsJoint(h[id]) THEN h
    ELSE [h EXCEPT ![id].parameters = DictSetNone(@, S_sigma)]

PulsarLikelihoodInit(h, data, id) ==
    [cls |-> "PulsarLikelihood",
     x |-> data.time, y |-> data.flux, func |-> id,
     parameters |->
        [k \in SeqRange(DictSetNone(ModelParameters(h, id), S_sigma)) |-> PNone]]

\* the keyword arguments __init__(self, data, model) takes besides data and
\* model
InitKeywords == {}

\* PulsarLikelihood(data, model, **keywords): [exc, obj, heap]; a keyword
\* __init__ does not take raises TypeError before the body runs
PulsarLikelihoodNew(h, data, id, keywords) ==
    IF keywords \subseteq InitKeywords
    THEN [exc |-> "none", obj |-> PulsarLikelihoodInit(LikInitHeap(h, id), data, id),
          heap |-> LikInitHeap(h, id)]
    ELSE [exc |-> "TypeError", obj |-> NoObj, heap |-> h]

\* NullLikelihood(data, model): [exc, obj]; __init__ reads model.base_keys
\* first, and a model without that attribute raises AttributeError
NullLikelihoodInit(h, data, id) ==
    IF "base_keys" \notin DOMAIN h[id]
    THEN [exc |-> "AttributeError", obj |-> NoObj]
    ELSE [exc |-> "none",
          obj |-> [cls |-> "NullLikelihood", x |-> data.time, y |-> data.flux,
                   model |-> id,
                   parameters |->
                      [k \in {S_sigma} \cup SeqRange(h[id].base_keys) |-> PNone]]]

\* result_null.log_evidence
LogEvidences == {FInt(0 - 1), FInt(0)}

\* np.log(2 * np.pi * sigma ** 2): the symbol L for a finite sigma # 0
LogTwoPiSigmaSq(sigma) ==
    CASE IsNaN(sigma) -> NaN
      [] IsInf(sigma) -> PInf
      [] sigma.q = RZero -> NInf
      [] OTHER -> FinL(RZero, ROne)

\* one term with the log left out
LikTerm_NoLog(residual, sigma) ==
    LET z == FDiv(residual, sigma)
    IN  FMul(Fin(Rat(-1, 2)), FMul(z, z))

\* one term - .5 * ((residual / sigma) ** 2 + np.log(2 * np.pi * sigma ** 2))
LikTerm(residual, sigma) ==
    LET z == FDiv(residual, sigma)
    IN  FMul(Fin(Rat(-1, 2)), FAdd(FMul(z, z), LogTwoPiSigmaSq(sigma)))

\* np.sum of a one-dimensional array
NpSum(a) ==
    LET Acc[i \in 0..Len(a)] == IF i = 0 THEN FInt(0) ELSE FAdd(Acc[i - 1], a[i])
    IN  Acc[Len(a)]

\* only NaN replaced, an infinity handed back
NanToNum_NanOnly(x) == IF IsNaN(x) THEN FInt(0) ELSE x

\* np.nan_to_num: NaN becomes 0.0, an infinity the finite float of largest
\* magnitude and the same sign
NanToNum(x) ==
    CASE IsNaN(x) -> FInt(0)
      [] x.tag = "pinf" -> FMax
      [] x.tag = "ninf" -> FMin
      [] OTHER -> x

\* PulsarLikelihood.log_likelihood: [exc, log_l, out]
LogLikelihood(h, self) ==
    LET sigma == self.parameters[S_sigma]
        Summed(f) ==
            NpSum([i \in 1..Len(self.y) |->
                      LikTerm(FSub(self.y[i], f.out[i]), sigma)])
        Returned(f) ==
            IF f.exc # "none"
            THEN {[exc |-> f.exc, log_l |-> NaN, out |-> NaN]}
            ELSE {[exc |-> "none", log_l |-> log_l, out |-> NanToNum(log_l)] :
                     log_l \in {Summed(f)}}
    IN  CHOOSE r \in UNION {Returned(f) :
                   f \in {ModelCall(h, self.func, self.x, self.parameters)}} : TRUE

\* the inputs: data (time sorted and flux of the same shape), the model, the
\* parameter values the sampler sets; sigma may be 0 or infinite
FluxVals == {FInt(2 * k - 1) : k \in 0..MaxFlux}
LikDatas ==
    UNION {{[time |-> t, flux |-> f] : f \in [1..Len(t) -> FluxVals]} : t \in TimeArrays}
SigmaVals == {FInt(k) : k \in 0..MaxSigma} \cup {PInf}
LikParameterSets(self) ==
    {[k \in DOMAIN self.parameters |->
        IF k = S_sigma THEN sigma ELSE KwValue(LeafPool, k, beta, toa, c)] :
        sigma \in SigmaVals, beta \in BetaVals, toa \in ToaVals, c \in CoefVals}

NoLikCall == [called |-> FALSE, exc |-> "none", log_l |-> NaN, out |-> NaN]
NoLikNew == [called |-> FALSE]
LikIdle == lik = NoObj /\ likCall = NoLikCall /\ likNew = NoLikNew

\* the leaf models and the composite polynomial + shapelet exist
LikInit ==
    /\ heap = Append(LeafPool, JointFluxModelInit(LeafPool, 2, 3))
    /\ fluxExpr = [i \in 1..Len(LeafPool) |-> LeafExpr(i)]
                     \o <<(<<"add", LeafExpr(2), LeafExpr(3)>>)>>
    /\ fluxErr = "none"
    /\ fluxCall = NoFluxCall
    /\ LikIdle

\* PulsarLikelihood(data, model)
LikConstruct ==
    /\ lik = NoObj /\ likNew = NoLikNew
    /\ \E data \in LikDatas, id \in 1..Len(heap) :
          /\ lik' = PulsarLikelihoodInit(LikInitHeap(heap, id), data, id)
          /\ heap' = LikInitHeap(heap, id)
    /\ likNew' = [called |-> TRUE, cls |-> "PulsarLikelihood", keywords |-> {},
                  exc |-> "none"]
    /\ UNCHANGED likCall /\ LikOnly

\* run_full_analysis: likelihood = PulsarLikelihood(data, full_model,
\* noise_log_likelihood=result_null.log_evidence); an exception ends it
LikRunFullAnalysis ==
    /\ lik = NoObj /\ likNew = NoLikNew
    /\ \E data \in LikDatas, id \in 1..Len(heap), log_evidence \in LogEvidences :
          \E r \in {PulsarLikelihoodNew(heap, data, id, {"noise_log_likelihood"})} :
              /\ lik' = r.obj
              /\ heap' = r.heap
              /\ likNew' = [called |-> TRUE, cls |-> "PulsarLikelihood",
                            keywords |-> {"noise_log_likelihood"},
                            noise_log_likelihood |-> log_evidence, exc |-> r.exc]
    /\ UNCHANGED likCall /\ LikOnly

\* NullLikelihood(data, model)
LikConstructNull ==
    /\ lik = NoObj /\ likNew = NoLikNew
    /\ \E data \in LikDatas, id \in 1..Len(heap) :
          \E r \in {NullLikelihoodInit(heap, data, id)} :
              /\ lik' = r.obj
              /\ likNew' = [called |-> TRUE, cls |-> "NullLikelihood", keywords |-> {},
                            model |-> id, exc |-> r.exc]
    /\ UNCHANGED <<heap, likCall>> /\ LikOnly

\* the sampler sets every parameter: likelihood.parameters.update(sample)
LikSetParameters ==
    /\ lik # NoObj /\ ~likCall.called
    /\ \A k \in DOMAIN lik.parameters : lik.parameters[k] = PNone
    /\ \E ps \in LikParameterSets(lik) : lik' = [lik EXCEPT !.parameters = ps]
    /\ UNCHANGED <<heap, likCall, likNew>> /\ LikOnly

\* likelihood.log_likelihood()
LikLogLikelihood ==
    /\ lik # NoObj /\ ~likCall.called
    /\ \A k \in DOMAIN lik.parameters : lik.parameters[k] # PNone
    /\ LET r == LogLikelihood(heap, lik)
       IN  likCall' = [called |-> TRUE, exc |-> r.exc, log_l |-> r.log_l, out |-> r.out]
    /\ UNCHANGED <<heap, lik, likNew>> /\ LikOnly

LikNext ==
    \/ LikConstruct \/ LikRunFullAnalysis \/ LikConstructNull
    \/ LikSetParameters \/ LikLogLikelihood

----------------------------------------------------------------------------
(* priors.py: MinimumPrior and update_toa_prior.  A prior mapping is a     *)
(* dict, kept as the sequence of its items in insertion order.             *)

\* bilby's Uniform(minimum, maximum, name, latex_label)
NamedUniform(minimum, maximum, name, latex_label) ==
    [cls |-> "Uniform", minimum |-> minimum, maximum |-> maximum,
     name |-> name, latex_label |-> latex_label]

\* bilby's Beta(alpha, beta, minimum, maximum, name, latex_label)
Beta(alpha, beta, minimum, maximum, name, latex_label) ==
    [cls |-> "Beta", alpha |-> alpha, beta |-> beta,
     minimum |-> minimum, maximum |-> maximum,
     name |-> name, latex_label |-> latex_label]

\* is the character a decimal digit, and int() of it
IsDigit(c) == \E d \in 1..Len(Digits) : Digits[d] = c
DigitVal(c) == (CHOOSE d \in 1..Len(Digits) : Digits[d] = c) - 1

\* MinimumPrior.__init__: a ConditionalBeta(alpha=1, beta=order) whose
\* reference is named by lowering the last character of the own name by
\* one; int() of a last character that is no digit raises ValueError
MinimumPriorInit(order, minimum, maximum, name, minimum_spacing, latex_label) ==
    IF ~IsDigit(name[Len(name)])
    THEN [exc |-> "ValueError", obj |-> NoObj]
    ELSE LET reference_name ==
                 SubSeq(name, 1, Len(name) - 1)
                     \o IntToStr(DigitVal(name[Len(name)]) - 1)
         IN  [exc |-> "none",
              obj |-> [cls |-> "MinimumPrior", alpha |-> 1, beta |-> order,
                       minimum |-> minimum, maximum |-> maximum,
                       name |-> name, latex_label |-> latex_label,
                       order |-> order,
                       reference_name |-> reference_name,
                       required_variables |-> <<reference_name>>,
                       minimum_spacing |-> minimum_spacing]]

\* MinimumPrior.minimum_condition: the minimum the reference value gives
MinimumCondition(prior, reference_value) ==
    FAdd(reference_value, FInt(prior.minimum_spacing))

\* sub in key, of two strings
Contains(sub, key) ==
    \E i \in 1..(Len(key) - Len(sub) + 1) : SubSeq(key, i, i + Len(sub) - 1) = sub

\* toa_keys = [key for key in priors if "toa" in key], as positions
RECURSIVE ToaKeysFrom(_, _)
ToaKeysFrom(p, i) ==
    IF i > Len(p) THEN <<>>
    ELSE (IF Contains(S_toa, p[i].key) THEN <<i>> ELSE <<>>) \o ToaKeysFrom(p, i + 1)
ToaKeys(p) == ToaKeysFrom(p, 1)

\* the loop of update_toa_prior from its ii-th round on (ii counts from 0);
\* an exception leaves the mapping as the rounds before it made it
RECURSIVE UpdateLoop(_, _, _)
UpdateLoop(p, toa_keys, ii) ==
    IF ii >= Len(toa_keys) THEN [exc |-> "none", priors |-> p]
    ELSE LET at == toa_keys[ii + 1]
             key == p[at].key
             old == p[at].prior
             ntoa == Len(toa_keys)
         IN  IF ii > 0
             THEN LET r == MinimumPriorInit(ntoa - ii, old.minimum, old.maximum,
                                            key, 0, old.latex_label)
                  IN  IF r.exc # "none" THEN [exc |-> r.exc, priors |-> p]
                      ELSE UpdateLoop([p EXCEPT ![at].prior = r.obj], toa_keys, ii + 1)
             ELSE UpdateLoop(
                      [p EXCEPT ![at].prior =
                          Beta(1, ntoa, old.minimum, old.maximum, key, old.latex_label)],
                      toa_keys, ii + 1)

\* update_toa_prior(priors): [exc, priors]
UpdateToaPrior(p) ==
    IF Len(ToaKeys(p)) = 1 THEN [exc |-> "none", priors |-> p]
    ELSE UpdateLoop(p, ToaKeys(p), 0)

\* the position of a key in the mapping, 0 when it is not a key
KeyAt(p, key) ==
    IF \E i \in 1..Len(p) : p[i].key = key
    THEN CHOOSE i \in 1..Len(p) : p[i].key = key
    ELSE 0

\* the effective minimum of the prior at position i in a joint draw with
\* the quantiles fr: a MinimumPrior takes it from the value drawn for its
\* reference, which must be a key of the mapping
RECURSIVE DrawMinimum(_, _, _)
DrawMinimum(p, fr, i) ==
    LET prior == p[i].prior
    IN  IF prior.cls # "MinimumPrior" THEN [exc |-> "none", minimum |-> prior.minimum]
        ELSE IF KeyAt(p, prior.reference_name) = 0
        THEN [exc |-> "IllegalConditionsException", minimum |-> NaN]
        ELSE LET j == KeyAt(p, prior.reference_name)
                 rmin == DrawMinimum(p, fr, j)
             IN  IF rmin.exc # "none" THEN rmin
                 ELSE [exc |-> "none",
                       minimum |->
                          MinimumCondition(prior,
                              FAdd(rmin.minimum,
                                   FMul(Fin(fr[j]),
                                        FSub(p[j].prior.maximum, rmin.minimum))))]

\* the value drawn at position i: Uniform and Beta both rescale a quantile
\* fr[i] of [0,1] as minimum + fr[i] * (maximum - minimum)
DrawValue(p, fr, i) ==
    FAdd(DrawMinimum(p, fr, i).minimum,
         FMul(Fin(fr[i]), FSub(p[i].prior.maximum, DrawMinimum(p, fr, i).minimum)))

\* a joint draw: [exc, values, priors]; a conditioned prior keeps the
\* minimum its condition set
JointDraw(p, fr) ==
    IF \E i \in 1..Len(p) : DrawMinimum(p, fr, i).exc # "none"
    THEN [exc |-> "IllegalConditionsException", values |-> <<>>, priors |-> p]
    ELSE [exc |-> "none",
          values |-> [i \in 1..Len(p) |-> DrawValue(p, fr, i)],
          priors |-> [i \in 1..Len(p) |->
                         [p[i] EXCEPT !.prior.minimum = DrawMinimum(p, fr, i).minimum]]]

\* the inputs: component names, the ends of an arrival-time prior, quantiles
ToaNames == {<<"0">>, <<"1">>, <<"2">>, <<"a">>}
ToaEnds == {FInt(k) : k \in 1..MaxToaEnd}
Fractions == {Rat(k, FracDen) : k \in 0..FracDen}
S_TOA == <<"-", "T", "O", "A">>

NoToaCall == [called |-> FALSE, exc |-> "none"]
NoToaDraw == [drawn |-> FALSE, exc |-> "none", values |-> <<>>]
ToaIdle == priors = <<>> /\ toaOrig = <<>> /\ toaCall = NoToaCall /\ toaDraw = NoToaDraw
ToaInit == ToaIdle

\* priors.update(component.get_priors(data)) as far as the arrival time
\* goes: priors[toa_key] = Uniform(start, end, toa_key, latex_label)
ToaAddComponent ==
    /\ ~toaCall.called
    /\ Len(ToaKeys(priors)) < MaxToa
    /\ \E name \in ToaNames, end \in ToaEnds :
          LET toa_key == S_toa \o S_us \o name
          IN  /\ KeyAt(priors, toa_key) = 0
              /\ priors' = Append(priors,
                    [key |-> toa_key,
                     prior |-> NamedUniform(FInt(0), end, toa_key, name \o S_TOA)])
    /\ UNCHANGED <<toaOrig, toaCall, toaDraw>> /\ ToaOnly

\* add_sigma_prior: priors['sigma'] = Uniform(0, max_flux, 'sigma')
ToaAddSigma ==
    /\ ~toaCall.called
    /\ KeyAt(priors, S_sigma) = 0
    /\ priors' = Append(priors,
          [key |-> S_sigma,
           prior |-> NamedUniform(FInt(0), FInt(1), S_sigma, S_sigma)])
    /\ UNCHANGED <<toaOrig, toaCall, toaDraw>> /\ ToaOnly

\* priors = update_toa_prior(priors)
ToaUpdate ==
    /\ ~toaCall.called /\ priors # <<>>
    /\ \E r \in {UpdateToaPrior(priors)} :
          /\ priors' = r.priors
          /\ toaCall' = [called |-> TRUE, exc |-> r.exc]
    /\ toaOrig' = priors
    /\ UNCHANGED toaDraw /\ ToaOnly

\* one joint draw from the mapping, every prior at a quantile of its own
ToaSample ==
    /\ toaCall.called /\ toaCall.exc = "none" /\ ~toaDraw.drawn
    /\ \E fr \in [1..Len(priors) -> Fractions] :
          \E r \in {JointDraw(priors, fr)} :
              /\ toaDraw' = [drawn |-> TRUE, exc |-> r.exc, values |-> r.values]
              /\ priors' = r.priors
    /\ UNCHANGED <<toaOrig, toaCall>> /\ ToaOnly

ToaNext == ToaAddComponent \/ ToaAddSigma \/ ToaUpdate \/ ToaSample

----------------------------------------------------------------------------
(* data.py: TimeDomainData.  An array is [kind, shape, vals]: kind         *)
(* "ndarray" or "list", shape as numpy gives it and vals the elements in   *)
(* row-major order.  A data object refers to its arrays by position.       *)

NdArray(shape, vals) == [kind |-> "ndarray", shape |-> shape, vals |-> vals]
PyList(vals) == [kind |-> "list", shape |-> <<Len(vals)>>, vals |-> vals]

\* a list has no attribute shape or ndim: AttributeError
HasShape(a) == a.kind = "ndarray"
Ndim(a) == Len(a.shape)

\* only the first step looked at
AnyDiffNegative_First(time) ==
    Len(time.vals) >= 2 /\ FLt(FSub(time.vals[2], time.vals[1]), FInt(0))

\* np.any(np.diff(time) < 0) of a one-dimensional array
AnyDiffNegative(time) ==
    \E i \in 1..(Len(time.vals) - 1) :
        FLt(FSub(time.vals[i + 1], time.vals[i]), FInt(0))

\* the checks of from_array on the arrays mem[time], mem[flux], in the
\* order the code makes them: the exception raised, or "none"
FromArrayChecks(mem, time, flux) ==
    IF ~HasShape(mem[time]) \/ ~HasShape(mem[flux]) THEN "AttributeError"
    ELSE IF mem[time].shape # mem[flux].shape THEN "ValueError"
    ELSE IF Ndim(mem[time]) > 1 THEN "ValueError"
    ELSE IF AnyDiffNegative(mem[time]) THEN "ValueError"
    ELSE "none"

\* the flux array stored as the time
StoredTime_Flux(time, flux) == flux

\* time_domain_data.time = time: the reference the caller gave
StoredTime(time, flux) == time

\* TimeDomainData.from_array(time, flux): [exc, obj, mem]; no array is
\* written to, and reference_time is not set
FromArray(mem, time, flux) ==
    IF FromArrayChecks(mem, time, flux) # "none"
    THEN [exc |-> FromArrayChecks(mem, time, flux), obj |-> NoObj, mem |-> mem]
    ELSE [exc |-> "none",
          obj |-> [cls |-> "TimeDomainData",
                   time |-> StoredTime(time, flux), flux |-> flux,
                   reference_time |-> PNone],
          mem |-> mem]

\* the derived statistics, of the elements d.time and d.flux of the arrays
\* of a data object (taken of a nonempty array)
DataStart(d) == d.time[1]
\* the last element read as the first
DataEnd_First(d) == d.time[1]
DataEnd(d) == d.time[Len(d.time)]
DataDuration(d) == FSub(DataEnd(d), DataStart(d))
DataN(d) == Len(d.time)
RECURSIVE SeqMax(_)
SeqMax(sq) ==
    IF Len(sq) = 1 THEN sq[1]
    ELSE LET r == SeqMax(Tail(sq)) IN IF FLt(r, sq[1]) THEN sq[1] ELSE r
DataMaxFlux(d) == SeqMax(d.flux)

\* the elements of the arrays a data object refers to
DataView(mem, obj) == [time |-> mem[obj.time].vals, flux |-> mem[obj.flux].vals]

\* the inputs: times of every length up to MaxDataLen, sorted or not, as
\* array and as list, and a two-dimensional array; a flux of each shape
DataVals == {FInt(k) : k \in 0..MaxDataVal}
FluxOfLen(n) == [i \in 1..n |-> FInt(10 + i)]
TimeInputs ==
    UNION {UNION {{NdArray(<<n>>, v), PyList(v)} : v \in [1..n -> DataVals]} :
              n \in 0..MaxDataLen}
       \cup {NdArray(<<2, 1>>, v) : v \in [1..2 -> DataVals]}
FluxInputs ==
    UNION {{NdArray(<<n>>, FluxOfLen(n)), PyList(FluxOfLen(n))} : n \in 0..MaxDataLen}
       \cup {NdArray(<<2, 1>>, FluxOfLen(2))}

\* A table (DataFrame) is the sequence of its rows [time, flux,
\* pulse_number]; a file is [name, rows].
SortedByTime(df) ==
    \A i \in 1..(Len(df) - 1) : FLe(df[i].time, df[i + 1].time)

\* df.sort_values("time"): the default sort (quicksort) is not stable, so
\* rows of equal time come out in any order
SortValues(df) ==
    {s \in {[i \in 1..Len(df) |-> df[p[i]]] : p \in Permutations(1..Len(df))} :
        SortedByTime(s)}

\* every row kept
FilterPulse_All(df, pulse_number) == df

\* df[df.pulse_number == pulse_number]: the rows selected, in their order
RECURSIVE FilterPulse(_, _)
FilterPulse(df, pulse_number) ==
    IF df = <<>> THEN <<>>
    ELSE (IF Head(df).pulse_number = pulse_number THEN <<Head(df)>> ELSE <<>>)
            \o FilterPulse(Tail(df), pulse_number)

\* df.time.values, df.flux.values: a new array of the column
ColumnValues(df, c) == NdArray(<<Len(df)>>, [i \in 1..Len(df) |-> df[i][c]])

\* _sort_and_filter_dataframe(df, pulse_number): the results [exc, obj, mem]
\* it may give, the two new arrays put after those of mem
SortAndFilterDataframe(mem, df, pulse_number) ==
    {[exc |-> "none",
      obj |-> [cls |-> "TimeDomainData", time |-> Len(mem) + 1,
               flux |-> Len(mem) + 2, reference_time |-> PNone],
      mem |-> mem \o <<ColumnValues(f, "time"), ColumnValues(f, "flux")>>] :
        f \in {IF pulse_number # PNone THEN FilterPulse(s, pulse_number) ELSE s :
                  s \in SortValues(df)}}

\* from_csv, from_h5: the table read from the file, sorted and filtered
FromCsv(mem, file, pulse_number) == SortAndFilterDataframe(mem, file.rows, pulse_number)
FromH5(mem, file, pulse_number) == SortAndFilterDataframe(mem, file.rows, pulse_number)

\* from_file: from_h5 when "h5" is in the file's name, or else from_csv
S_h5 == <<"h", "5">>
FromFile(mem, file, pulse_number) ==
    IF Contains(S_h5, file.name) THEN FromH5(mem, file, pulse_number)
    ELSE FromCsv(mem, file, pulse_number)

\* the loader a caller's call reaches
LoadTable(op, mem, file, pulse_number) ==
    CASE op = "from_csv" -> FromCsv(mem, file, pulse_number)
      [] op = "from_h5" -> FromH5(mem, file, pulse_number)
      [] op = "from_file" -> FromFile(mem, file, pulse_number)

\* the tables: up to MaxDataLen rows in any order of time, every flux its
\* own, pulse numbers 0 and 1; pulse number 2 is in no table
PulseNumbers == {FInt(0), FInt(1)}
Tables ==
    UNION {{[i \in 1..n |-> [time |-> t[i], flux |-> FInt(10 + i),
                              pulse_number |-> pn[i]]] :
               t \in [1..n -> DataVals], pn \in [1..n -> PulseNumbers]} :
              n \in 0..MaxDataLen}
PulseRequests == {PNone, FInt(1), FInt(2)}
Filenames == {<<"a", ".", "c", "s", "v">>, <<"a", ".", "h", "5">>}
TableOps == {"from_csv", "from_h5", "from_file"}

NoDataIn == [op |-> "none"]
NoRead == [op |-> "none"]
DataIdle ==
    /\ arrays = <<>> /\ tdd = NoObj /\ dataErr = "none"
    /\ dataIn = NoDataIn /\ dataRead = NoRead
DataInit == DataIdle

\* data = TimeDomainData.from_array(time, flux), on arrays the caller made
DataFromArray ==
    /\ dataIn = NoDataIn
    /\ \E time \in TimeInputs, flux \in FluxInputs :
          \E r \in {FromArray(<<time, flux>>, 1, 2)} :
              /\ arrays' = r.mem
              /\ tdd' = r.obj
              /\ dataErr' = r.exc
              /\ dataIn' = [op |-> "from_array", time |-> time, flux |-> flux]
    /\ UNCHANGED dataRead /\ DataOnly

\* data = TimeDomainData.from_csv(filename, pulse_number), from_h5 or
\* from_file, of a file of the format the loader reads
DataFromTable ==
    /\ dataIn = NoDataIn
    /\ \E op \in TableOps, filename \in Filenames, df \in Tables,
          pulse_number \in PulseRequests :
          /\ op = "from_csv" => ~Contains(S_h5, filename)
          /\ op = "from_h5" => Contains(S_h5, filename)
          /\ \E r \in LoadTable(op, <<>>, [name |-> filename, rows |-> df], pulse_number) :
                /\ arrays' = r.mem
                /\ tdd' = r.obj
                /\ dataErr' = r.exc
                /\ dataIn' = [op |-> op, filename |-> filename, table |-> df,
                              pulse_number |-> pulse_number]
    /\ UNCHANGED dataRead /\ DataOnly


----------------------------------------------------------------------------
(* kookaburra/flux.py: get_priors and parameters.  A prior mapping is the  *)
(* sequence of its [key, prior] items, as above.                           *)

\* the statistics get_priors reads that data.py does not define
DataMinFlux(d) == FNeg(SeqMax([i \in 1..Len(d.flux) |-> FNeg(d.flux[i])]))
DataRangeFlux(d) == FSub(DataMaxFlux(d), DataMinFlux(d))
DataTimeStep(d) == FSub(d.time[2], d.time[1])

\* np.abs
FAbs(x) == IF IsFin(x) /\ RSign(x.q) < 0 THEN FNeg(x) ELSE IF x.tag = "ninf" THEN PInf ELSE x

\* np.mean of a one-dimensional array: NaN for an empty one
NpMean(a) == IF Len(a) = 0 THEN NaN ELSE FDiv(NpSum(a), FInt(Len(a)))

\* a[idxs] for a boolean mask
RECURSIVE MaskFrom(_, _, _)
MaskFrom(a, idxs, i) ==
    IF i > Len(a) THEN <<>>
    ELSE (IF idxs[i] THEN <<a[i]>> ELSE <<>>) \o MaskFrom(a, idxs, i + 1)
Masked(a, idxs) == MaskFrom(a, idxs, 1)

\* data.estimate_pulse_time(), f at its default 0.75
EstimatePulseTime(d) ==
    LET idxs == [i \in 1..Len(d.flux) |->
                    FLt(FMul(Fin(Rat(3, 4)), DataMaxFlux(d)), FAbs(d.flux[i]))]
    IN  NpMean(Masked(d.time, idxs))

\* values of the prior arguments: the string "auto", any other string
PAuto == [tag |-> "auto", q |-> RZero, l |-> RZero]
S_uniform == "uniform"
S_log_uniform == "log-uniform"

\* the prior arguments ShapeletFlux.__init__ stores, added to the object
\* ShapeletFluxInit gives
\* (kw holds the keyword arguments by name)
ShapeletFluxPriorArgs(self, kw) ==
    self @@ [toa_prior_width |-> kw.toa_prior_width,
             toa_prior_time |-> kw.toa_prior_time,
             c_mix |-> kw.c_mix, c_max_multiplier |-> kw.c_max_multiplier,
             beta_min |-> kw.beta_min, beta_max |-> kw.beta_max,
             beta_type |-> kw.beta_type]

\* bilby's LogUniform and Normal, with their names
NamedLogUniform(minimum, maximum, name) ==
    [cls |-> "LogUniform", minimum |-> minimum, maximum |-> maximum, name |-> name]
Normal(mu, sigma, name) == [cls |-> "Normal", mu |-> mu, sigma |-> sigma, name |-> name]

\* priors[key] = prior on a mapping: an existing key keeps its place and
\* gets the new prior
PriorSet(p, key, prior) ==
    IF KeyAt(p, key) = 0 THEN Append(p, [key |-> key, prior |-> prior])
    ELSE [p EXCEPT ![KeyAt(p, key)].prior = prior]

\* the first entry of a key kept
RECURSIVE PriorUpdate_KeepFirst(_, _)
PriorUpdate_KeepFirst(p, other) ==
    IF other = <<>> THEN p
    ELSE PriorUpdate_KeepFirst(
            IF KeyAt(p, Head(other).key) = 0 THEN Append(p, Head(other)) ELSE p,
            Tail(other))

\* priors.update(other)
RECURSIVE PriorUpdate(_, _)
PriorUpdate(p, other) ==
    IF other = <<>> THEN p
    ELSE PriorUpdate(PriorSet(p, Head(other).key, Head(other).prior), Tail(other))

\* dt = data.duration * self.toa_prior_width; Uniform(t0 - dt, t0 + dt)
ToaWindow(t0, duration, toa_prior_width) ==
    LET dt == FMul(duration, toa_prior_width)
    IN  [minimum |-> FSub(t0, dt), maximum |-> FAdd(t0, dt)]

\* the arrival-time prior of ShapeletFlux.get_priors: [exc, prior];
\* float(None) raises TypeError
ToaPrior(self, d) ==
    LET label == IF self.name # PyNone THEN self.name \o S_TOA ELSE Tail(S_TOA)
    IN  IF FLt(self.toa_prior_width, FInt(1))
        THEN IF self.toa_prior_time = PNone
             THEN [exc |-> "TypeError", prior |-> NoObj]
             ELSE LET t0 == IF self.toa_prior_time = PAuto
                            THEN EstimatePulseTime(d)
                            ELSE FAdd(DataStart(d),
                                      FMul(self.toa_prior_time, DataDuration(d)))
                      w == ToaWindow(t0, DataDuration(d), self.toa_prior_width)
                  IN  [exc |-> "none",
                       prior |-> NamedUniform(w.minimum, w.maximum, self.toa_key, label)]
        ELSE [exc |-> "none",
              prior |-> NamedUniform(DataStart(d), DataEnd(d), self.toa_key, label)]

\* 1e-20, shortened to fit the integers
Tiny == Fin(Rat(1, 1000000))

\* the coefficient priors of ShapeletFlux.get_priors, from the i-th key on
RECURSIVE CoefPriors(_, _, _, _)
CoefPriors(self, d, p, i) ==
    IF i > Len(self.coef_keys) THEN p
    ELSE CoefPriors(self, d,
            PriorSet(p, self.coef_keys[i],
                [name |-> self.coef_keys[i]] @@
                SpikeAndSlabInit(
                    Uniform(FMul(Tiny, DataMaxFlux(d)),
                            FMul(self.c_max_multiplier, DataRangeFlux(d))),
                    self.c_mix).obj),
            i + 1)

\* every beta_type but "uniform" taken as log-uniform
ShapeletGetPriors_AnyType(self, d) ==
    LET toa == ToaPrior(self, d)
        bmin == IF self.beta_min = PNone THEN DataTimeStep(d) ELSE self.beta_min
        bmax == IF self.beta_max = PNone THEN DataDuration(d) ELSE self.beta_max
        self2 == [self EXCEPT !.beta_min = bmin, !.beta_max = bmax]
        p1 == PriorSet(<<>>, self.toa_key, toa.prior)
        p2 == PriorSet(p1, self.beta_key,
                 IF self.beta_type = S_uniform
                 THEN NamedUniform(bmin, bmax, self.beta_key, self.beta_key)
                 ELSE NamedLogUniform(bmin, bmax, self.beta_key))
    IN  IF toa.exc # "none" THEN [exc |-> toa.exc, priors |-> <<>>, self |-> self]
        ELSE [exc |-> "none", priors |-> CoefPriors(self, d, p2, 1), self |-> self2]

\* ShapeletFlux.get_priors(data): [exc, priors, self]; the defaults of
\* beta_min and beta_max are written to the object
ShapeletGetPriors(self, d) ==
    LET toa == ToaPrior(self, d)
        bmin == IF self.beta_min = PNone THEN DataTimeStep(d) ELSE self.beta_min
        bmax == IF self.beta_max = PNone THEN DataDuration(d) ELSE self.beta_max
        self2 == [self EXCEPT !.beta_min = bmin, !.beta_max = bmax]
        p1 == PriorSet(<<>>, self.toa_key, toa.prior)
        p2 == PriorSet(p1, self.beta_key,
                 IF self.beta_type = S_uniform
                 THEN NamedUniform(bmin, bmax, self.beta_key, self.beta_key)
                 ELSE NamedLogUniform(bmin, bmax, self.beta_key))
    IN  IF toa.exc # "none" THEN [exc |-> toa.exc, priors |-> <<>>, self |-> self]
        ELSE IF self.beta_type \notin {S_uniform, S_log_uniform}
        THEN [exc |-> "ValueError", priors |-> <<>>, self |-> self2]
        ELSE [exc |-> "none", priors |-> CoefPriors(self, d, p2, 1), self |-> self2]

\* x ** n and n!
RECURSIVE FPow(_, _)
FPow(x, n) == IF n = 0 THEN FInt(1) ELSE FMul(x, FPow(x, n - 1))
RECURSIVE Factorial(_)
Factorial(n) == IF n = 0 THEN 1 ELSE n * Factorial(n - 1)

\* PolynomialFlux.get_priors(data)
RECURSIVE PolyPriors(_, _, _, _)
PolyPriors(self, d, p, ii) ==
    IF ii >= self.n_polynomials THEN p
    ELSE PolyPriors(self, d,
            PriorSet(p, self.basename \o IntToStr(ii),
                Normal(FInt(0),
                       FDiv(FDiv(DataRangeFlux(d), FPow(DataDuration(d), ii)),
                            FInt(Factorial(ii))),
                       self.basename \o IntToStr(ii))),
            ii + 1)
PolynomialGetPriors(self, d) ==
    [exc |-> "none",
     priors |-> PolyPriors(self, d,
                    PriorSet(<<>>, self.basename \o IntToStr(0),
                        NamedUniform(FInt(0), DataMaxFlux(d),
                                     self.basename \o IntToStr(0), S_B \o <<"0">>)),
                    1),
     self |-> self]

\* model.get_priors(data) of a leaf
LeafGetPriors(self, d) ==
    CASE self.cls = "ShapeletFlux" -> ShapeletGetPriors(self, d)
      [] self.cls = "PolynomialFlux" -> PolynomialGetPriors(self, d)
      [] OTHER -> [exc |-> "none", priors |-> <<>>, self |-> self]

\* JointFluxModel.get_priors(data) from the i-th child on: [exc, priors, h];
\* an exception of a child ends the call
RECURSIVE JointGetPriors(_, _, _, _, _)
JointGetPriors(h, models, d, p, i) ==
    IF i > Len(models) THEN [exc |-> "none", priors |-> p, h |-> h]
    ELSE LET r == LeafGetPriors(h[models[i]], d)
             h2 == [h EXCEPT ![models[i]] = r.self]
         IN  IF r.exc # "none" THEN [exc |-> r.exc, priors |-> <<>>, h |-> h2]
             ELSE JointGetPriors(h2, models, d, PriorUpdate(p, r.priors), i + 1)

\* the inputs: names, prior arguments (the defaults, and each argument
\* varied), data
PriNames == {PyNone, <<"a">>, <<"b">>}
PriWidths == {Fin(Rat(k, WidthDen)) : k \in 1..WidthDen}
\* toa_prior_time=None in the signature of ShapeletFlux.__init__
DefaultToaPriorTime == PNone
PriTimes == {DefaultToaPriorTime, PAuto, Fin(Rat(1, 2))}
PriBetaTypes == {S_uniform, S_log_uniform, "normal"}
PriorArgSets ==
    {[w |-> w, t |-> t, bt |-> S_uniform, bmin |-> PNone] :
        w \in PriWidths, t \in PriTimes}
    \cup {[w |-> FInt(1), t |-> PNone, bt |-> bt, bmin |-> PNone] : bt \in PriBetaTypes}
    \cup {[w |-> FInt(1), t |-> PNone, bt |-> S_uniform, bmin |-> FInt(0)]}
PriDatas ==
    {[time |-> <<FInt(0), FInt(1), FInt(2)>>, flux |-> <<FInt(1), FInt(3), FInt(1)>>],
     [time |-> <<FInt(1), FInt(5)>>, flux |-> <<FInt(2), FInt(2)>>]}

NoPriCall == [op |-> "none"]
PriIdle == pmodels = <<>> /\ pcall = NoPriCall
PriInit == PriIdle

\* ShapeletFlux(n_shapelets, name, toa_prior_width=.., toa_prior_time=..,
\* beta_min=.., beta_type=..), c_mix, c_max_multiplier and beta_max at
\* their defaults
PriNewShapelet ==
    /\ pcall = NoPriCall /\ Len(pmodels) < 2
    /\ \E n \in {0, 1, NShapelets}, name \in PriNames, a \in PriorArgSets :
          pmodels' = Append(pmodels,
              ShapeletFluxPriorArgs(ShapeletFluxInit(n, name),
                  [toa_prior_width |-> a.w, toa_prior_time |-> a.t,
                   c_mix |-> Fin(Rat(1, 2)), c_max_multiplier |-> FInt(1),
                   beta_min |-> a.bmin, beta_max |-> PNone, beta_type |-> a.bt]))
    /\ UNCHANGED pcall /\ PriOnly

\* PolynomialFlux(n_polynomials), the empty polynomial included
PriNewPolynomial ==
    /\ pcall = NoPriCall /\ Len(pmodels) < 2
    /\ \E n \in {0, NPoly} : pmodels' = Append(pmodels, PolynomialFluxInit(n))
    /\ UNCHANGED pcall /\ PriOnly

\* the model read: the one leaf itself, or the composite a + b of the two
PriChildren == [i \in 1..Len(pmodels) |-> i]

\* priors = model.get_priors(data); a single component may be asked a
\* second time, with any data
PriGetPriors ==
    /\ pmodels # <<>>
    /\ \/ pcall = NoPriCall
       \/ pcall.op = "get_priors" /\ pcall.prev = NoPriCall /\ Len(pmodels) = 1
    /\ \E d \in PriDatas :
          \E r \in {JointGetPriors(pmodels, PriChildren, d, <<>>, 1)} :
              /\ pcall' = [op |-> "get_priors", data |-> d, exc |-> r.exc,
                           priors |-> r.priors, before |-> pmodels, prev |-> pcall]
              /\ pmodels' = r.h
    /\ PriOnly

\* model.parameters
PriParameters ==
    /\ pcall = NoPriCall /\ pmodels # <<>>
    /\ pcall' = [op |-> "parameters", exc |-> "none",
                 parameters |-> JointParameters(pmodels, PriChildren, <<>>)]
    /\ UNCHANGED pmodels /\ PriOnly

PriNext == PriNewShapelet \/ PriNewPolynomial \/ PriGetPriors \/ PriParameters

----------------------------------------------------------------------------
(* TimeDomainData: the attributes read off an object, reference_time and   *)
(* truncate, and plot.py's plot_data.  data.py has start, end, duration    *)
(* and N; reference_time, delta_time, midtime and truncate are used by     *)
(* plot.py and the tests and are taken as documented.                      *)

\* an attribute read that raises: the exception in place of the value
Raised(exc) == [tag |-> exc, q |-> RZero, l |-> RZero]

\* N, start, end and duration read off an object with the elements d, each
\* from the arrays as they are; time[0] and time[-1] of an empty array
\* raise IndexError
ReadStatistics(d) ==
    IF Len(d.time) = 0
    THEN [N |-> 0, start |-> Raised("IndexError"), end |-> Raised("IndexError"),
          duration |-> Raised("IndexError")]
    ELSE [N |-> DataN(d), start |-> DataStart(d), end |-> DataEnd(d),
          duration |-> DataDuration(d)]

\* midtime: the midpoint of the time span
DataMidtime(d) == FMul(Fin(Rat(1, 2)), FAdd(DataStart(d), DataEnd(d)))

\* reference_time: the value set, and the midpoint until one is set
ReferenceTime(obj, d) ==
    IF obj.reference_time # PNone THEN obj.reference_time
    ELSE IF Len(d.time) = 0 THEN Raised("IndexError")
    ELSE DataMidtime(d)

\* data.reference_time = value
SetReferenceTime(obj, value) == [obj EXCEPT !.reference_time = value]

\* delta_time: time - reference_time, a new array
DeltaTime(obj, d) ==
    IF ReferenceTime(obj, d) = Raised("IndexError") THEN Raised("IndexError")
    ELSE [i \in 1..Len(d.time) |-> FSub(d.time[i], ReferenceTime(obj, d))]

\* truncate(width_fraction): [exc, obj, mem]; the rows with
\* |time - reference_time| < width_fraction * duration are kept, in two new
\* arrays the object is pointed at
TruncateMask(obj, d, width_fraction) ==
    [i \in 1..Len(d.time) |->
        FLt(FAbs(FSub(d.time[i], ReferenceTime(obj, d))),
            FMul(width_fraction, DataDuration(d)))]
TruncatedArrays(d, idxs) ==
    <<NdArray(<<Len(Masked(d.time, idxs))>>, Masked(d.time, idxs)),
      NdArray(<<Len(Masked(d.flux, idxs))>>, Masked(d.flux, idxs))>>
Truncate(mem, obj, width_fraction) ==
    IF Len(DataView(mem, obj).time) = 0
    THEN [exc |-> "IndexError", obj |-> obj, mem |-> mem]
    ELSE [exc |-> "none",
          obj |-> [obj EXCEPT !.time = Len(mem) + 1, !.flux = Len(mem) + 2],
          mem |-> mem \o TruncatedArrays(DataView(mem, obj),
                            TruncateMask(obj, DataView(mem, obj), width_fraction))]

\* the reference time never set
PlotData_Ignore(obj, reference_time) == obj

\* plot_data(data, reference_time=..): the data object after the call; the
\* plot itself changes nothing of the data
PlotData(obj, reference_time) ==
    IF reference_time # PNone THEN SetReferenceTime(obj, reference_time) ELSE obj

\* the values a caller sets and the window fractions it asks
ReferenceTimes == {FInt(1), FInt(10)}
WidthFractions == {Fin(Rat(1, 4)), Fin(Rat(1, 2)), FInt(1)}
Constructed == tdd # NoObj /\ dataRead = NoRead
JustMade == dataIn.op \in {"from_array"} \cup TableOps

\* data.reference_time = value
DataSetReferenceTime ==
    /\ Constructed /\ JustMade
    /\ \E value \in ReferenceTimes :
          /\ tdd' = SetReferenceTime(tdd, value)
          /\ dataIn' = [op |-> "set_reference_time", value |-> value,
                        before |-> DataView(arrays, tdd), mem |-> arrays]
    /\ dataErr' = "none"
    /\ UNCHANGED <<arrays, dataRead>> /\ DataOnly

\* plot_data(data, reference_time=reference_time)
DataPlotData ==
    /\ Constructed /\ JustMade
    /\ \E reference_time \in {PNone, FInt(1)} :
          /\ tdd' = PlotData(tdd, reference_time)
          /\ dataIn' = [op |-> "plot_data", value |-> reference_time,
                        before |-> DataView(arrays, tdd), mem |-> arrays]
    /\ dataErr' = "none"
    /\ UNCHANGED <<arrays, dataRead>> /\ DataOnly

\* data.truncate(width_fraction), once
DataTruncate ==
    /\ Constructed /\ dataIn.op # "truncate"
    /\ \E width_fraction \in WidthFractions :
          \E r \in {Truncate(arrays, tdd, width_fraction)} :
              /\ arrays' = r.mem
              /\ tdd' = r.obj
              /\ dataErr' = r.exc
              /\ dataIn' = [op |-> "truncate", width_fraction |-> width_fraction,
                            before |-> DataView(arrays, tdd),
                            reference_time |-> tdd.reference_time]
    /\ UNCHANGED dataRead /\ DataOnly

\* the attributes read off the object as it is now
DataReadAttributes ==
    /\ Constructed
    /\ \E d \in {DataView(arrays, tdd)} :
          dataRead' = [op |-> "read", statistics |-> ReadStatistics(d),
                       reference_time |-> ReferenceTime(tdd, d),
                       delta_time |-> DeltaTime(tdd, d)]
    /\ UNCHANGED <<arrays, tdd, dataErr, dataIn>> /\ DataOnly

DataNext ==
    \/ DataFromArray \/ DataFromTable
    \/ DataSetReferenceTime \/ DataPlotData \/ DataTruncate \/ DataReadAttributes

----------------------------------------------------------------------------
(* likelihood.py: log_likelihood run by parallel workers.  The workers     *)
(* share the data arrays and the flux model; each has its own parameter    *)
(* mapping and its own local names, and runs the statements of             *)
(* log_likelihood one at a time, in any interleaving with the others.      *)

\* two workers
Workers == {1, 2}
Unbound == [tag |-> "unbound", q |-> RZero, l |-> RZero]
IdleWorker ==
    [pc |-> "idle", parameters |-> <<>>, sigma |-> Unbound, flux |-> Unbound,
     residual |-> Unbound, exc |-> "none", out |-> Unbound]

\* the residual written into the shared flux array (self.y -= ...)
ResidualStatement_InPlace(sh, wk) ==
    [sh |-> [sh EXCEPT !.y = [i \in 1..Len(sh.y) |-> FSub(sh.y[i], wk.flux[i])]],
     wk |-> [wk EXCEPT !.residual = [i \in 1..Len(sh.y) |-> FSub(sh.y[i], wk.flux[i])],
                       !.pc = "residual"]]

\* residual = self.y - <the model's flux>: a new array bound to a local
\* name; [sh, wk] after the statement
ResidualStatement(sh, wk) ==
    [sh |-> sh,
     wk |-> [wk EXCEPT !.residual = [i \in 1..Len(sh.y) |-> FSub(sh.y[i], wk.flux[i])],
                       !.pc = "residual"]]

\* self.func(self.x, **self.parameters): the keyword arguments are a new
\* dict, the flux a new array; [sh, wk] after the call
ModelStatement(sh, wk) ==
    {[sh |-> sh,
      wk |-> IF f.exc # "none"
             THEN [wk EXCEPT !.exc = f.exc, !.pc = "done"]
             ELSE [wk EXCEPT !.flux = f.out, !.pc = "model"]] :
        f \in {ModelCall(sh.heap, sh.func, sh.x, wk.parameters)}}

\* log_l = np.sum(...); return np.nan_to_num(log_l)
ReturnStatement(sh, wk) ==
    [sh |-> sh,
     wk |-> [wk EXCEPT
               !.out = NanToNum(NpSum([i \in 1..Len(wk.residual) |->
                                          LikTerm(wk.residual[i], wk.sigma)])),
               !.pc = "done"]]

\* the shared state: data of MaxT samples, the polynomial or the composite
\* as the model, as PulsarLikelihood.__init__ leaves them
ParHeap == Append(LeafPool, JointFluxModelInit(LeafPool, 2, 3))
ParDatas == {d \in LikDatas : Len(d.time) = MaxT /\ d.flux[1] = FInt(1)}
ParShareds ==
    {[heap |-> LikInitHeap(ParHeap, id), x |-> d.time, y |-> d.flux, func |-> id] :
        d \in ParDatas, id \in {2, Len(ParHeap)}}
\* the parameter values a worker is given: sigma 0 or 1
ParParameterSets(sh) ==
    {[k \in SeqRange(DictSetNone(ModelParameters(sh.heap, sh.func), S_sigma)) |->
        IF k = S_sigma THEN FInt(sigma) ELSE KwValue(LeafPool, k, 1, 0, c)] :
        sigma \in {0, 1}, c \in CoefVals}

ParIdle == pshared = NoObj /\ pshared0 = NoObj /\ workers = <<>>
ParInit ==
    /\ pshared \in ParShareds
    /\ pshared0 = pshared
    /\ workers = [w \in Workers |-> IdleWorker]

\* the sampler of worker w sets its parameters: parameters.update(sample)
ParSetParameters(w) ==
    /\ workers[w].pc = "idle"
    /\ \E ps \in ParParameterSets(pshared) :
          workers' = [workers EXCEPT ![w].parameters = ps, ![w].pc = "ready"]
    /\ UNCHANGED <<pshared, pshared0>> /\ ParOnly

\* sigma = self.parameters["sigma"]
ParReadSigma(w) ==
    /\ workers[w].pc = "ready"
    /\ workers' = [workers EXCEPT ![w].sigma = workers[w].parameters[S_sigma],
                                  ![w].pc = "sigma"]
    /\ UNCHANGED <<pshared, pshared0>> /\ ParOnly

\* the model evaluated
ParCallModel(w) ==
    /\ workers[w].pc = "sigma"
    /\ \E r \in ModelStatement(pshared, workers[w]) :
          /\ pshared' = r.sh
          /\ workers' = [workers EXCEPT ![w] = r.wk]
    /\ UNCHANGED pshared0 /\ ParOnly

\* the residual taken
ParResidual(w) ==
    /\ workers[w].pc = "model"
    /\ \E r \in {ResidualStatement(pshared, workers[w])} :
          /\ pshared' = r.sh
          /\ workers' = [workers EXCEPT ![w] = r.wk]
    /\ UNCHANGED pshared0 /\ ParOnly

\* the sum returned
ParReturn(w) ==
    /\ workers[w].pc = "residual"
    /\ \E r \in {ReturnStatement(pshared, workers[w])} :
          /\ pshared' = r.sh
          /\ workers' = [workers EXCEPT ![w] = r.wk]
    /\ UNCHANGED pshared0 /\ ParOnly

ParNext ==
    \E w \in Workers :
        \/ ParSetParameters(w) \/ ParReadSigma(w) \/ ParCallModel(w)
        \/ ParResidual(w) \/ ParReturn(w)

----------------------------------------------------------------------------
(* The specifications: one per part of the program, each with the other    *)
(* parts idle.                                                             *)
InitSAS == SasInit /\ FluxIdle /\ LikIdle /\ ToaIdle /\ DataIdle /\ PriIdle /\ ParIdle
InitFlux == FluxInit /\ SasIdle /\ LikIdle /\ ToaIdle /\ DataIdle /\ PriIdle /\ ParIdle
InitLik == LikInit /\ SasIdle /\ ToaIdle /\ DataIdle /\ PriIdle /\ ParIdle
InitToa == ToaInit /\ SasIdle /\ FluxIdle /\ LikIdle /\ DataIdle /\ PriIdle /\ ParIdle
InitData == DataInit /\ SasIdle /\ FluxIdle /\ LikIdle /\ ToaIdle /\ PriIdle /\ ParIdle
InitPri == PriInit /\ SasIdle /\ FluxIdle /\ LikIdle /\ ToaIdle /\ DataIdle /\ ParIdle
InitPar ==
    ParInit /\ SasIdle /\ FluxIdle /\ LikIdle /\ ToaIdle /\ DataIdle /\ PriIdle

SpecSAS == InitSAS /\ [][SasNext]_vars
SpecFlux == InitFlux /\ [][FluxNext]_vars
SpecLik == InitLik /\ [][LikNext]_vars
SpecToa == InitToa /\ [][ToaNext]_vars
SpecData == InitData /\ [][DataNext]_vars
SpecPri == InitPri /\ [][PriNext]_vars
SpecPar == InitPar /\ [][ParNext]_vars

----------------------------------------------------------------------------
(* Claims about SpikeAndSlab, under SpecSAS *)

SasRescaled == sas # NoObj /\ sasCall.op = "rescale"
SasProbed == sas # NoObj /\ sasCall.op = "prob"
SasCallIdx == 1..Len(sasCall.arg)

\* the map the specification states, on exact rationals: a, b the slab
\* bounds, m the mix (m # 1) and u the unit value
StatedRescale(a, b, m, u) ==
    LET p == RDiv(RSub(u, m), RSub(ROne, m))
    IN  IF RLt(p, RZero) THEN a ELSE RAdd(a, RMul(p, RSub(b, a)))

\* C3: rescale maps each unit value u in [0,1] to slab.minimum when
\* p = (u - mix) / (1 - mix) is negative and to
\* slab.minimum + p * (slab.maximum - slab.minimum) otherwise, and an array
\* input gives for each element exactly what the scalar call gives for it
\* (for every mix for which p is defined, mix # 1).
C3_RescaleMap ==
    (SasRescaled /\ ValidForRescaling(sasCall.arg) /\ sas.mix # FInt(1)) =>
        /\ sasCall.exc = "none"
        /\ Len(sasCall.out) = Len(sasCall.arg)
        /\ \A i \in SasCallIdx :
              /\ sasCall.out[i] =
                    Fin(StatedRescale(sas.slab.minimum.q, sas.slab.maximum.q,
                                      sas.mix.q, sasCall.arg[i].q))
              /\ sasCall.arr =>
                    <<sasCall.out[i]>> = RescaleScalar(sas, sasCall.arg[i]).out

\* an array call whose first element falls on the spike and whose second
\* falls strictly inside the slab
C3_Witness ==
    /\ SasRescaled /\ sasCall.arr /\ sasCall.exc = "none" /\ Len(sasCall.arg) = 2
    /\ sas.mix # FInt(1)
    /\ FLt(RescaleP(sas, sasCall.arg[1]), FInt(0))
    /\ FLt(FInt(0), RescaleP(sas, sasCall.arg[2]))
    /\ sasCall.out[1] = sas.minimum
    /\ FLt(sas.minimum, sasCall.out[2]) /\ FLt(sasCall.out[2], sas.maximum)

\* what C4 asks of a rescale call on valid input
RescaleEndsAndOrder ==
    /\ sasCall.exc = "none"
    /\ Len(sasCall.out) = Len(sasCall.arg)
    /\ \A i \in SasCallIdx :
          /\ sasCall.arg[i] = FInt(0) => sasCall.out[i] = sas.slab.minimum
          /\ sasCall.arg[i] = FInt(1) => sasCall.out[i] = sas.slab.maximum
    /\ \A i, j \in SasCallIdx :
          FLe(sasCall.arg[i], sasCall.arg[j]) => FLe(sasCall.out[i], sasCall.out[j])

\* C4 as stated: for every mix in [0,1], both endpoints included, and slab
\* bounds a < b, rescale(0) = a, rescale(1) = b and rescale is non-decreasing.
C4_AsStated ==
    (SasRescaled /\ ValidForRescaling(sasCall.arg)) => RescaleEndsAndOrder

\* C4 amended: the same for every mix in [0,1), the endpoint mix = 1 left out.
C4_RescaleEndsMonotone ==
    (SasRescaled /\ ValidForRescaling(sasCall.arg) /\ FLt(sas.mix, FInt(1))) =>
        RescaleEndsAndOrder

\* an array call <<0, 1>> that gave <<a, b>> with a spike of positive weight
C4_Witness ==
    /\ SasRescaled /\ sasCall.arr
    /\ FLt(FInt(0), sas.mix) /\ FLt(sas.mix, FInt(1))
    /\ sasCall.arg = <<FInt(0), FInt(1)>>
    /\ sasCall.out = <<sas.slab.minimum, sas.slab.maximum>>

\* C5: prob returns mix at the spike (the slab minimum) and
\* (1 - mix) * slab.prob(x) for every other x, for a scalar and for each
\* element of an array; so a value rescale emitted from its spike branch has
\* density mix.
C5_ProbDensity ==
    SasProbed =>
        /\ Len(sasCall.out) = Len(sasCall.arg)
        /\ \A i \in SasCallIdx :
              sasCall.out[i] =
                 IF sasCall.arg[i] = sas.slab.minimum
                 THEN sas.mix
                 ELSE FMul(FSub(FInt(1), sas.mix),
                           UniformProb(sas.slab, sasCall.arg[i]))
        /\ sasCall.chained => \A i \in SasCallIdx : sasCall.out[i] = sas.mix

\* the density was read at a value rescale emitted from its spike branch,
\* and it differs from the density of the slab there
C5_Witness ==
    /\ SasProbed /\ sasCall.chained /\ Len(sasCall.arg) = 1
    /\ sasCall.out[1] = sas.mix
    /\ sasCall.out[1] # FMul(FSub(FInt(1), sas.mix),
                             UniformProb(sas.slab, sasCall.arg[1]))

\* C6: a slab that is not a Uniform prior (None included) makes the
\* constructor fail with NotImplementedError and no object exists; with a
\* Uniform slab minimum, maximum and spike are the slab's minimum, maximum
\* and minimum.
C6_ConstructorSlab ==
    sasArgs # NoObj =>
        IF sasArgs.slab.cls # "Uniform"
        THEN sasErr = "NotImplementedError" /\ sas = NoObj
        ELSE /\ sasErr = "none"
             /\ sas.cls = "SpikeAndSlab"
             /\ sas.minimum = sasArgs.slab.minimum
             /\ sas.maximum = sasArgs.slab.maximum
             /\ sas.spike = sasArgs.slab.minimum

\* the constructor was called with slab = None and raised
C6_Witness ==
    sasArgs # NoObj /\ sasArgs.slab = NoneVal /\ sasErr = "NotImplementedError"

----------------------------------------------------------------------------
(* Claims about the flux models, under SpecFlux *)

\* the leaves of a + expression, left to right
RECURSIVE ExprLeaves(_)
ExprLeaves(e) ==
    IF e[1] = "leaf" THEN <<e[2]>> ELSE ExprLeaves(e[2]) \o ExprLeaves(e[3])

Joints == {i \in 1..Len(heap) : IsJoint(heap[i])}

\* C9: after any sequence of + (either operand may be a JointFluxModel) the
\* models list of every JointFluxModel holds leaf models only, and it is the
\* leaves of the left operand followed by those of the right operand, in
\* their original order.
C9_JointFlat ==
    \A j \in Joints :
        /\ \A k \in 1..Len(heap[j].models) : ~IsJoint(heap[heap[j].models[k]])
        /\ heap[j].models = ExprLeaves(fluxExpr[j])
        /\ fluxExpr[j][1] = "add"

\* a composite was built from two composites and holds at least four leaves
C9_Witness ==
    \E j \in Joints :
        /\ fluxExpr[j][2][1] = "add" /\ fluxExpr[j][3][1] = "add"
        /\ Len(heap[j].models) >= 4
        /\ heap[j].models[1] # heap[j].models[2]

\* C30: a + b changes neither operand nor any other model: every object
\* that existed before the step has the same sub-model list and the same
\* declared parameters after it, so a composite combined further is not
\* changed either.
C30_OperandsKept ==
    [][/\ Len(heap') >= Len(heap)
       /\ \A id \in 1..Len(heap) :
             /\ heap'[id] = heap[id]
             /\ ModelParameters(heap', id) = ModelParameters(heap, id)]_vars

\* a composite c = a + b was combined further, as left and as right operand
\* of longer composites
C30_Witness ==
    \E j, k \in Joints :
        /\ j < k
        /\ fluxExpr[k][2] = fluxExpr[j] \/ fluxExpr[k][3] = fluxExpr[j]
        /\ Len(heap[k].models) > Len(heap[j].models)
        /\ heap[j].models = ExprLeaves(fluxExpr[j])

FluxEvaluated == fluxCall.op = "call" /\ fluxCall.exc = "none"

\* the sum over the children of sample i, taken of the children's own
\* evaluations
RECURSIVE ChildSum(_, _, _)
ChildSum(models, i, k) ==
    IF k = 0 THEN FInt(0)
    ELSE FAdd(ChildSum(models, i, k - 1),
              LeafCall(heap[models[k]], fluxCall.time, fluxCall.kw).out[i])

\* C10: evaluating a JointFluxModel gives the elementwise sum of its
\* children's evaluations with the same time and parameters, and a model
\* combined with an empty BaseFlux evaluates to what the model evaluates to.
C10_JointSum ==
    (FluxEvaluated /\ IsJoint(heap[fluxCall.id])) =>
        LET j == heap[fluxCall.id]
            e == fluxExpr[fluxCall.id]
        IN  /\ Len(fluxCall.out) = Len(fluxCall.time)
            /\ \A i \in 1..Len(fluxCall.time) :
                  fluxCall.out[i] = ChildSum(j.models, i, Len(j.models))
            /\ \A side \in {2, 3} :
                  (e[side][1] = "leaf" /\ heap[e[side][2]].cls = "BaseFlux") =>
                      LET other == CHOOSE x \in 1..Len(heap) : fluxExpr[x] = e[5 - side]
                      IN  fluxCall.out =
                             ModelCall(heap, other, fluxCall.time, fluxCall.kw).out

\* BaseFlux() + (polynomial + shapelet) was evaluated on more than one sample
\* and is not zero everywhere
C10_Witness ==
    /\ FluxEvaluated /\ IsJoint(heap[fluxCall.id])
    /\ Len(fluxCall.time) >= 2
    /\ heap[heap[fluxCall.id].models[1]].cls = "BaseFlux"
    /\ Len(heap[fluxCall.id].models) = 3
    /\ \E i \in 1..Len(fluxCall.out) : fluxCall.out[i] # FInt(0)
    /\ \E k \in 2..3 : heap[heap[fluxCall.id].models[k]].cls = "ShapeletFlux"
    /\ \E k \in 2..3 : heap[heap[fluxCall.id].models[k]].cls = "PolynomialFlux"

PulseAsked == fluxCall.op = "get_pulse_only" /\ fluxCall.exc = "none"
\* the sum at sample i over the first k children of the given flag
RECURSIVE FlagSum(_, _, _, _)
FlagSum(models, flag, i, k) ==
    IF k = 0 THEN FInt(0)
    ELSE FAdd(FlagSum(models, flag, i, k - 1),
              IF heap[models[k]].cls = "ShapeletFlux" <=> flag
              THEN LeafCall(heap[models[k]], fluxCall.time, fluxCall.kw).out[i]
              ELSE FInt(0))
HasPulse(models) == \E k \in 1..Len(models) : heap[models[k]].cls = "ShapeletFlux"

\* C26: get_pulse_only gives, sample by sample, the sum of the evaluations
\* of the ShapeletFlux children and of no PolynomialFlux or BaseFlux child
\* (the empty sum 0.0 when there is no pulse child), which is the full
\* evaluation minus what the other children contribute.
C26_PulseOnly ==
    PulseAsked =>
        LET models == heap[fluxCall.id].models
        IN  IF HasPulse(models)
            THEN /\ Len(fluxCall.out) = Len(fluxCall.time)
                 /\ \A i \in 1..Len(fluxCall.time) :
                       /\ fluxCall.out[i] = FlagSum(models, TRUE, i, Len(models))
                       /\ fluxCall.out[i] =
                             FSub(ModelCall(heap, fluxCall.id, fluxCall.time,
                                            fluxCall.kw).out[i],
                                  FlagSum(models, FALSE, i, Len(models)))
            ELSE fluxCall.out = FInt(0)

\* a composite of the polynomial and two shapelets, on more than one
\* sample, where the baseline contributes
C26_Witness ==
    /\ PulseAsked /\ Len(fluxCall.time) >= 2
    /\ Len(heap[fluxCall.id].models) = 3
    /\ HasPulse(heap[fluxCall.id].models)
    /\ \E k \in 1..3 : heap[heap[fluxCall.id].models[k]].cls = "PolynomialFlux"
    /\ \E i \in 1..Len(fluxCall.out) :
          /\ fluxCall.out[i] # FInt(0)
          /\ fluxCall.out[i] #
                ModelCall(heap, fluxCall.id, fluxCall.time, fluxCall.kw).out[i]

----------------------------------------------------------------------------
(* Claims about PulsarLikelihood, under SpecLik *)

LikCalled == lik # NoObj /\ likCall.called /\ likCall.exc = "none"
LikSigma == lik.parameters[S_sigma]
LikN == Len(lik.y)
\* model(time, params), as the likelihood calls it
LikModelOut == ModelCall(heap, lik.func, lik.x, lik.parameters).out

\* the stated value on exact rationals, for a finite sigma # 0: the rational
\* part -1/2 * sum of ((flux_i - model_i) / sigma)^2 and the coefficient
\* -N/2 of log(2*pi*sigma^2)
StatedLogL(y, mo, sigma) ==
    LET Sq[i \in 0..Len(y)] ==
            IF i = 0 THEN RZero
            ELSE LET z == RDiv(RSub(y[i].q, mo[i].q), sigma.q)
                 IN  RAdd(Sq[i - 1], RMul(z, z))
    IN  FinL(RMul(Rat(-1, 2), Sq[Len(y)]), Rat(-Len(y), 2))

\* C1: for a finite sigma # 0, log_likelihood returns
\* -0.5 * sum_i [((flux_i - model(time_i, params)) / sigma)^2
\* + log(2*pi*sigma^2)]; when the model reproduces the flux at every sample
\* this is -N/2 * log(2*pi*sigma^2).
C1_LogLikelihood ==
    (LikCalled /\ IsFin(LikSigma) /\ LikSigma.q # RZero) =>
        /\ likCall.out = StatedLogL(lik.y, LikModelOut, LikSigma)
        /\ LikModelOut = lik.y => likCall.out = FinL(RZero, Rat(-LikN, 2))

\* a polynomial model that reproduces a flux of MaxT samples, not all equal,
\* and a sigma other than 1: the value returned is -MaxT/2 * log(2*pi*sigma^2)
C1_Witness ==
    /\ LikCalled /\ LikSigma = FInt(2)
    /\ heap[lik.func].cls = "PolynomialFlux"
    /\ LikN = MaxT /\ lik.y[1] # lik.y[LikN]
    /\ LikModelOut = lik.y
    /\ likCall.out = FinL(RZero, Rat(-MaxT, 2))

IsNonFinite(x) == x.tag \in {"nan", "pinf", "ninf"}

\* C2 as stated: whenever the sum computed is NaN, +infinity or -infinity,
\* the value returned is zero.
C2_AsStated ==
    (LikCalled /\ IsNonFinite(likCall.log_l)) => likCall.out = FInt(0)

\* C2 amended: a non-finite value is never returned; a NaN sum is returned
\* as zero, an infinite sum as the finite float of largest magnitude and the
\* same sign.
C2_NonFiniteCoerced ==
    LikCalled =>
        /\ ~IsNonFinite(likCall.out)
        /\ IsNaN(likCall.log_l) => likCall.out = FInt(0)
        /\ likCall.log_l = NInf => likCall.out = FMin
        /\ likCall.log_l = PInf => likCall.out = FMax
        /\ IsFin(likCall.log_l) => likCall.out = likCall.log_l

\* an infinite sigma: the sum is -infinity and the most negative finite
\* float comes back
C2_Witness ==
    /\ LikCalled /\ LikSigma = PInf /\ LikN >= 1
    /\ likCall.log_l = NInf
    /\ likCall.out = FMin

\* C20 as stated: PulsarLikelihood can be constructed with a noise
\* log-likelihood constant, as run_full_analysis does with the null run's
\* log evidence, and the object holds that value unchanged as its
\* noise_log_likelihood, whatever parameter values are set afterwards.
C20_AsStated ==
    (likNew.called /\ "noise_log_likelihood" \in likNew.keywords) =>
        /\ likNew.exc = "none"
        /\ lik # NoObj
        /\ "noise_log_likelihood" \in DOMAIN lik
        /\ lik.noise_log_likelihood = likNew.noise_log_likelihood

\* C27 as stated: a NullLikelihood of a baseline-only model (no pulse
\* component) is constructed, and its log_likelihood returns, for every
\* parameter values, what PulsarLikelihood.log_likelihood returns on that
\* model, non-finite results included.
C27_AsStated ==
    (/\ likNew.called /\ likNew.cls = "NullLikelihood"
     /\ heap[likNew.model].cls \in {"BaseFlux", "PolynomialFlux"}) =>
        /\ likNew.exc = "none"
        /\ lik # NoObj
        /\ likCall.called =>
              likCall.out = LogLikelihood(heap, [lik EXCEPT !.cls = "PulsarLikelihood"]).out

\* C29 as stated: constructing a PulsarLikelihood from a model, a leaf or
\* a composite, leaves the declared parameters of every model as they were
\* before; no sigma key is added.
C29_AsStated ==
    (likNew.called /\ likNew.cls = "PulsarLikelihood" /\ likNew.exc = "none") =>
        \A id \in 1..Len(heap) :
            /\ ModelParameters(heap, id) =
                  ModelParameters(Append(LeafPool, JointFluxModelInit(LeafPool, 2, 3)), id)
            /\ S_sigma \notin SeqRange(ModelParameters(heap, id))

----------------------------------------------------------------------------
(* Claims about update_toa_prior, under SpecToa *)

\* the arrival-time keys of the mapping update_toa_prior received
OrigToaKeys == ToaKeys(toaOrig)
ToaUpdated == toaCall.called /\ ~toaDraw.drawn /\ Len(OrigToaKeys) >= 2
ToaDrawn == toaDraw.drawn /\ toaDraw.exc = "none"

\* C7 as stated: update_toa_prior on a mapping with N >= 2 arrival-time
\* keys returns with the first key's prior replaced by Beta(alpha=1, beta=N)
\* on that key's original [minimum, maximum], and the prior of the i-th key
\* after it (i = 1 .. N-1) by a conditional Beta(alpha=1, beta=N-i) on that
\* key's original [minimum, maximum], conditioned on the arrival-time key
\* that precedes it, with minimum_spacing added to that key's value.
C7_AsStated ==
    ToaUpdated =>
        /\ toaCall.exc = "none"
        /\ Len(priors) = Len(toaOrig)
        /\ LET first == OrigToaKeys[1]
           IN  /\ priors[first].prior.cls = "Beta"
               /\ priors[first].prior.alpha = 1
               /\ priors[first].prior.beta = Len(OrigToaKeys)
               /\ priors[first].prior.minimum = toaOrig[first].prior.minimum
               /\ priors[first].prior.maximum = toaOrig[first].prior.maximum
        /\ \A i \in 1..(Len(OrigToaKeys) - 1) :
              LET at == OrigToaKeys[i + 1]
                  before == OrigToaKeys[i]
              IN  /\ priors[at].prior.cls = "MinimumPrior"
                  /\ priors[at].prior.alpha = 1
                  /\ priors[at].prior.beta = Len(OrigToaKeys) - i
                  /\ priors[at].prior.minimum = toaOrig[at].prior.minimum
                  /\ priors[at].prior.maximum = toaOrig[at].prior.maximum
                  /\ priors[at].prior.required_variables = <<toaOrig[before].key>>

\* C8 as stated: in every joint draw from a mapping update_toa_prior has
\* processed, the arrival-time values are non-decreasing in declaration
\* order, each at least the one before it plus minimum_spacing.
C8_AsStated ==
    ToaDrawn =>
        \A i \in 1..(Len(ToaKeys(priors)) - 1) :
            LET at == ToaKeys(priors)[i + 1]
                before == ToaKeys(priors)[i]
            IN  FLe(FAdd(toaDraw.values[before],
                         FInt(priors[at].prior.minimum_spacing)),
                    toaDraw.values[at])

\* C22 as stated: update_toa_prior on a mapping with two or more
\* arrival-time keys, whatever the components are named, returns with
\* every key after the first conditioned on the arrival-time key declared
\* just before it: reference_name is that key and it is the one required
\* variable.
C22_AsStated ==
    ToaUpdated =>
        /\ toaCall.exc = "none"
        /\ \A i \in 2..Len(OrigToaKeys) :
              /\ priors[OrigToaKeys[i]].prior.cls = "MinimumPrior"
              /\ priors[OrigToaKeys[i]].prior.reference_name =
                    toaOrig[OrigToaKeys[i - 1]].key
              /\ priors[OrigToaKeys[i]].prior.required_variables =
                    <<toaOrig[OrigToaKeys[i - 1]].key>>

----------------------------------------------------------------------------
(* Claims about parameters and get_priors, under SpecPri *)

PriRead == pcall.op = "get_priors"
PriKeys(p) == {p[i].key : i \in 1..Len(p)}
NoDuplicateKeys(p) == \A i, j \in 1..Len(p) : p[i].key = p[j].key => i = j

\* what the i-th child gives by itself, on the data of the call
ChildPriors(i) == LeafGetPriors(pcall.before[i], pcall.data)
\* the last child that has a prior under the key
LastChildWith(key) ==
    CHOOSE i \in 1..Len(pcall.before) :
        /\ key \in PriKeys(ChildPriors(i).priors)
        /\ \A j \in (i + 1)..Len(pcall.before) : key \notin PriKeys(ChildPriors(j).priors)
PriorUnder(p, key) == p[CHOOSE i \in 1..Len(p) : p[i].key = key].prior

\* C11: the parameters and the priors of a composite are the union of its
\* children's mappings; under a key two children share, the prior of the
\* later child stands, and the collision raises nothing (the call raises
\* only what a child's get_priors raises).
C11_JointUnion ==
    /\ PriRead =>
          /\ pcall.exc = "none" <=>
                \A i \in 1..Len(pcall.before) : ChildPriors(i).exc = "none"
          /\ pcall.exc = "none" =>
                /\ NoDuplicateKeys(pcall.priors)
                /\ PriKeys(pcall.priors) =
                      UNION {PriKeys(ChildPriors(i).priors) : i \in 1..Len(pcall.before)}
                /\ \A n \in 1..Len(pcall.priors) :
                      pcall.priors[n].prior =
                         PriorUnder(ChildPriors(LastChildWith(pcall.priors[n].key)).priors,
                                    pcall.priors[n].key)
    /\ pcall.op = "parameters" =>
          /\ \A i, j \in 1..Len(pcall.parameters) :
                pcall.parameters[i] = pcall.parameters[j] => i = j
          /\ SeqRange(pcall.parameters) =
                UNION {SeqRange(pmodels[i].parameters) : i \in 1..Len(pmodels)}

\* two shapelet components of one name whose arrival-time priors differ:
\* the composite has the second one's
C11_Witness ==
    /\ PriRead /\ pcall.exc = "none" /\ Len(pcall.before) = 2
    /\ pcall.before[1].cls = "ShapeletFlux" /\ pcall.before[2].cls = "ShapeletFlux"
    /\ pcall.before[1].toa_key = pcall.before[2].toa_key
    /\ PriorUnder(ChildPriors(1).priors, pcall.before[1].toa_key)
          # PriorUnder(ChildPriors(2).priors, pcall.before[1].toa_key)
    /\ PriorUnder(pcall.priors, pcall.before[1].toa_key)
          = PriorUnder(ChildPriors(2).priors, pcall.before[1].toa_key)

\* the keys as stated, written out
StatedSuffix(name) == IF name = PyNone THEN <<>> ELSE <<"_">> \o name
StatedShapeletKeys(n, name) ==
    <<(<<"b", "e", "t", "a">> \o StatedSuffix(name)),
      (<<"t", "o", "a">> \o StatedSuffix(name))>>
       \o [i \in 1..n |-> <<"C">> \o NatToStr(i - 1) \o StatedSuffix(name)]
Shapelets == {i \in 1..Len(pmodels) : pmodels[i].cls = "ShapeletFlux"}

\* C18: a ShapeletFlux with n coefficients declares exactly beta, toa,
\* C0 .. C(n-1) in this order, each followed by _<name> when it has a name,
\* so two components of different names share no key.
C18_ShapeletKeys ==
    /\ \A i \in Shapelets :
          pmodels[i].parameters =
             StatedShapeletKeys(pmodels[i].n_shapelets, pmodels[i].name)
    /\ \A i, j \in Shapelets :
          pmodels[i].name # pmodels[j].name =>
             SeqRange(pmodels[i].parameters) \cap SeqRange(pmodels[j].parameters) = {}

\* a named and an unnamed component, NShapelets coefficients each
C18_Witness ==
    /\ Shapelets = {1, 2}
    /\ pmodels[1].name = PyNone /\ pmodels[2].name = <<"a">>
    /\ pmodels[1].n_shapelets = NShapelets /\ pmodels[2].n_shapelets = NShapelets
    /\ Len(pmodels[2].parameters) = NShapelets + 2

\* C28 as stated: the keys of the priors get_priors returns are the keys
\* of the model's declared parameters, for every model, a polynomial or a
\* shapelet component without coefficients included.
C28_AsStated ==
    (PriRead /\ pcall.exc = "none") =>
        PriKeys(pcall.priors) =
           UNION {SeqRange(pcall.before[i].parameters) : i \in 1..Len(pcall.before)}

\* the models as they were constructed, before any get_priors call
AsConstructed == IF pcall.prev = NoPriCall THEN pcall.before ELSE pcall.prev.before

\* C23 as stated: for a ShapeletFlux constructed without beta_min and
\* beta_max, every get_priors(data) gives a beta prior on
\* [data.time_step, data.duration] of the data of that call, also when the
\* instance was asked before with other data; bounds given to the
\* constructor are used as given.
C23_AsStated ==
    (/\ PriRead /\ pcall.exc = "none" /\ Len(pcall.before) = 1
     /\ pcall.before[1].cls = "ShapeletFlux") =>
        /\ AsConstructed[1].beta_min = PNone =>
              PriorUnder(pcall.priors, pcall.before[1].beta_key).minimum =
                 FSub(pcall.data.time[2], pcall.data.time[1])
        /\ AsConstructed[1].beta_min # PNone =>
              PriorUnder(pcall.priors, pcall.before[1].beta_key).minimum =
                 AsConstructed[1].beta_min
        /\ AsConstructed[1].beta_max = PNone =>
              PriorUnder(pcall.priors, pcall.before[1].beta_key).maximum =
                 FSub(pcall.data.time[Len(pcall.data.time)], pcall.data.time[1])

\* the children of the call whose beta_type is not recognised, and those
\* whose arrival-time window has no centre
BadBetaType ==
    {i \in 1..Len(pcall.before) :
        /\ pcall.before[i].cls = "ShapeletFlux"
        /\ pcall.before[i].beta_type # "uniform"
        /\ pcall.before[i].beta_type # "log-uniform"}
NoCentre ==
    {i \in 1..Len(pcall.before) :
        /\ pcall.before[i].cls = "ShapeletFlux"
        /\ FLt(pcall.before[i].toa_prior_width, FInt(1))
        /\ pcall.before[i].toa_prior_time = PNone}

\* C24: a ShapeletFlux with a beta_type other than "uniform" and
\* "log-uniform" makes get_priors, of the component or of a composite with
\* it, raise and hand back no mapping, ValueError unless another error
\* came first; with the two recognised types the beta prior is a Uniform
\* and a LogUniform.
C24_BetaType ==
    PriRead =>
        /\ BadBetaType # {} =>
              /\ pcall.exc # "none" /\ pcall.priors = <<>>
              /\ NoCentre = {} => pcall.exc = "ValueError"
        /\ (pcall.exc = "none" /\ Len(pcall.before) = 1
               /\ pcall.before[1].cls = "ShapeletFlux") =>
              PriorUnder(pcall.priors, pcall.before[1].beta_key).cls =
                 (IF pcall.before[1].beta_type = "uniform" THEN "Uniform"
                  ELSE "LogUniform")

\* a composite whose second component has the beta_type "normal"
C24_Witness ==
    /\ PriRead /\ pcall.exc = "ValueError" /\ pcall.priors = <<>>
    /\ Len(pcall.before) = 2 /\ BadBetaType = {2}
    /\ pcall.before[1].cls = "ShapeletFlux"
    /\ pcall.before[1].beta_type = "log-uniform"

\* C25 as stated: a ShapeletFlux built with toa_prior_width < 1 and no
\* toa_prior_time argument has the arrival-time prior of get_priors
\* centred on data.estimate_pulse_time(), as toa_prior_time = "auto" gives.
C25_AsStated ==
    (/\ PriRead /\ pcall.prev = NoPriCall /\ Len(pcall.before) = 1
     /\ pcall.before[1].cls = "ShapeletFlux"
     /\ FLt(pcall.before[1].toa_prior_width, FInt(1))
     /\ pcall.before[1].toa_prior_time = DefaultToaPriorTime) =>
        /\ pcall.exc = "none"
        /\ FAdd(PriorUnder(pcall.priors, pcall.before[1].toa_key).minimum,
                PriorUnder(pcall.priors, pcall.before[1].toa_key).maximum)
              = FMul(FInt(2), EstimatePulseTime(pcall.data))

\* C19 as stated: for every toa_prior_width < 1 the arrival-time prior
\* get_priors gives is uniform, centred on the centre time chosen, of full
\* width maximum - minimum = duration * toa_prior_width, which is strictly
\* smaller than the duration of the data.
C19_AsStated ==
    (/\ PriRead /\ pcall.exc = "none" /\ Len(pcall.before) = 1
     /\ pcall.before[1].cls = "ShapeletFlux"
     /\ FLt(pcall.before[1].toa_prior_width, FInt(1))
     /\ pcall.before[1].toa_prior_time # PAuto) =>
        LET toa == PriorUnder(pcall.priors, pcall.before[1].toa_key)
            centre == FAdd(DataStart(pcall.data),
                           FMul(pcall.before[1].toa_prior_time, DataDuration(pcall.data)))
        IN  /\ toa.cls = "Uniform"
            /\ FSub(toa.maximum, centre) = FSub(centre, toa.minimum)
            /\ FSub(toa.maximum, toa.minimum) =
                  FMul(DataDuration(pcall.data), pcall.before[1].toa_prior_width)
            /\ FLt(FSub(toa.maximum, toa.minimum), DataDuration(pcall.data))

----------------------------------------------------------------------------
(* Claims about TimeDomainData, under SpecData *)

FromArrayCalled == dataIn.op = "from_array"
BothArrays == dataIn.time.kind = "ndarray" /\ dataIn.flux.kind = "ndarray"
BothLists == dataIn.time.kind = "list" /\ dataIn.flux.kind = "list"
\* the three faults of an input, written out
ShapesDiffer == dataIn.time.shape # dataIn.flux.shape
MoreThanOneDim == Len(dataIn.time.shape) > 1
SomeStepBack ==
    \E i \in 1..(Len(dataIn.time.vals) - 1) :
        RLt(dataIn.time.vals[i + 1].q, dataIn.time.vals[i].q)
Malformed == ShapesDiffer \/ MoreThanOneDim \/ SomeStepBack

WellFormed == FromArrayCalled /\ BothArrays /\ ~Malformed

C14_AsStated ==
    (FromArrayCalled /\ BothLists /\ ~ShapesDiffer) =>
        /\ ~SomeStepBack => (dataErr = "none" /\ tdd # NoObj)
        /\ SomeStepBack => dataErr = "ValueError"

TableLoaded == dataIn.op \in TableOps
\* the rows of the table read that the request selects
Matching ==
    {i \in 1..Len(dataIn.table) :
        dataIn.pulse_number = PNone
           \/ dataIn.table[i].pulse_number = dataIn.pulse_number}
LoadedPairs ==
    {<<DataView(arrays, tdd).time[i], DataView(arrays, tdd).flux[i]>> :
        i \in 1..Len(DataView(arrays, tdd).time)}

\* C15: from_csv, from_h5 and from_file raise nothing and give an object
\* whose (time, flux) rows are exactly the rows of the table with the
\* pulse number requested (every row when none is requested), each time
\* with its own flux, in non-decreasing time; when no row matches, the
\* arrays are empty.
C15_TableRows ==
    TableLoaded =>
        /\ dataErr = "none" /\ tdd # NoObj
        /\ Len(DataView(arrays, tdd).time) = Cardinality(Matching)
        /\ Len(DataView(arrays, tdd).flux) = Cardinality(Matching)
        /\ LoadedPairs =
              {<<dataIn.table[i].time, dataIn.table[i].flux>> : i \in Matching}
        /\ \A i \in 1..(Cardinality(Matching) - 1) :
              ~RLt(DataView(arrays, tdd).time[i + 1].q, DataView(arrays, tdd).time[i].q)

\* from_file of an h5 file whose table goes down in time and has rows of
\* both pulse numbers, pulse number 1 requested: two rows are kept
C15_Witness ==
    /\ dataIn.op = "from_file" /\ Contains(S_h5, dataIn.filename)
    /\ dataIn.pulse_number = FInt(1)
    /\ Len(dataIn.table) = MaxDataLen
    /\ RLt(dataIn.table[MaxDataLen].time.q, dataIn.table[1].time.q)
    /\ dataIn.table[1].pulse_number = FInt(1)
    /\ dataIn.table[MaxDataLen].pulse_number = FInt(1)
    /\ Cardinality(Matching) = MaxDataLen - 1
    /\ Len(DataView(arrays, tdd).time) = MaxDataLen - 1
    /\ DataView(arrays, tdd).flux[1] = dataIn.table[MaxDataLen].flux

Truncated == dataIn.op = "truncate" /\ dataErr = "none"
AttributesRead == dataRead # NoRead
NowTime == DataView(arrays, tdd).time
NowFlux == DataView(arrays, tdd).flux
\* the window as stated, on the rows as they were before the call: the
\* reference time is the value set or the midpoint of the span
StatedReference ==
    IF dataIn.reference_time # PNone THEN dataIn.reference_time.q
    ELSE RMul(Rat(1, 2), RAdd(dataIn.before.time[1].q,
                             dataIn.before.time[Len(dataIn.before.time)].q))
StatedHalfWindow ==
    RMul(dataIn.width_fraction.q,
         RSub(dataIn.before.time[Len(dataIn.before.time)].q, dataIn.before.time[1].q))
Kept ==
    {i \in 1..Len(dataIn.before.time) :
        /\ RLt(RSub(dataIn.before.time[i].q, StatedReference), StatedHalfWindow)
        /\ RLt(RSub(StatedReference, dataIn.before.time[i].q), StatedHalfWindow)}
Rank(i) == Cardinality({m \in Kept : m <= i})

\* C16: truncate(width_fraction) keeps exactly the rows with
\* |time - reference_time| < width_fraction * duration, duration being that
\* of the data before the call, each time with its flux and in the order
\* they had; N, start, end and duration read afterwards are those of the
\* truncated arrays.
C16_Truncate ==
    Truncated =>
        /\ Len(NowTime) = Cardinality(Kept) /\ Len(NowFlux) = Cardinality(Kept)
        /\ \A i \in Kept :
              /\ NowTime[Rank(i)] = dataIn.before.time[i]
              /\ NowFlux[Rank(i)] = dataIn.before.flux[i]
        /\ AttributesRead =>
              /\ dataRead.statistics.N = Cardinality(Kept)
              /\ Kept # {} =>
                    /\ dataRead.statistics.start = NowTime[1]
                    /\ dataRead.statistics.end = NowTime[Cardinality(Kept)]
                    /\ dataRead.statistics.duration.q =
                          RSub(NowTime[Cardinality(Kept)].q, NowTime[1].q)

\* a truncation that dropped the last row and kept more than one, read
\* afterwards: the end and the duration are no longer those of before
C16_Witness ==
    /\ Truncated /\ AttributesRead
    /\ Len(dataIn.before.time) = MaxDataLen
    /\ Cardinality(Kept) = MaxDataLen - 1 /\ MaxDataLen \notin Kept
    /\ dataRead.statistics.end # dataIn.before.time[MaxDataLen]
    /\ dataRead.statistics.duration.q #
          RSub(dataIn.before.time[MaxDataLen].q, dataIn.before.time[1].q)

ReferenceSet ==
    dataIn.op \in {"set_reference_time", "plot_data"} /\ dataIn.value # PNone

\* C17: until a reference time is set, reference_time read off a series is
\* the midpoint of its time span; setting it (directly or through
\* plot_data) leaves time, flux and the arrays as they were, and
\* afterwards reference_time reads as the value set and delta_time as
\* time - that value.
C17_ReferenceTime ==
    /\ (tdd # NoObj /\ tdd.reference_time = PNone /\ AttributesRead
           /\ Len(NowTime) > 0) =>
          RMul(RInt(2), dataRead.reference_time.q) =
             RAdd(NowTime[1].q, NowTime[Len(NowTime)].q)
    /\ ReferenceSet =>
          /\ DataView(arrays, tdd) = dataIn.before
          /\ arrays = dataIn.mem
          /\ AttributesRead =>
                /\ dataRead.reference_time = dataIn.value
                /\ Len(dataRead.delta_time) = Len(NowTime)
                /\ \A i \in 1..Len(NowTime) :
                      dataRead.delta_time[i].q = RSub(NowTime[i].q, dataIn.value.q)

\* plot_data with a reference time that is not the midpoint, read
\* afterwards
C17_Witness ==
    /\ dataIn.op = "plot_data" /\ dataIn.value = FInt(1) /\ AttributesRead
    /\ Len(NowTime) = MaxDataLen
    /\ RAdd(NowTime[1].q, NowTime[MaxDataLen].q) # RInt(2)
    /\ dataRead.reference_time = FInt(1)
    /\ dataRead.delta_time[1] # NowTime[1]

----------------------------------------------------------------------------
(* Claims about evaluation by parallel workers, under SpecPar *)

\* what one call alone gives on the state the workers started from, with
\* the parameters of worker w
AloneResult(w) ==
    LogLikelihood(pshared0.heap,
                  [x |-> pshared0.x, y |-> pshared0.y, func |-> pshared0.func,
                   parameters |-> workers[w].parameters])
WorkerDone(w) == workers # <<>> /\ workers[w].pc = "done"

\* C21: evaluating the model and log_likelihood writes nothing the workers
\* share (the time and flux arrays and the models stay as they were) and
\* nothing of a worker's parameter mapping, so in every interleaving each
\* call returns what it returns when run alone.
C21_EvaluationPure ==
    /\ pshared = pshared0
    /\ \A w \in DOMAIN workers :
          /\ workers[w].pc \notin {"idle", "ready"} =>
                workers[w].parameters \in ParParameterSets(pshared0)
          /\ workers[w].pc = "done" =>
                /\ workers[w].exc = AloneResult(w).exc
                /\ workers[w].exc = "none" => workers[w].out = AloneResult(w).out

\* both workers are done, with different parameters and different results
C21_Witness ==
    /\ WorkerDone(1) /\ WorkerDone(2)
    /\ workers[1].parameters # workers[2].parameters
    /\ workers[1].exc = "none" /\ workers[2].exc = "none"
    /\ workers[1].out # workers[2].out
    /\ IsJoint(pshared.heap[pshared.func])

============================================================================
